---- MODULE Spec2Model ----
(***************************************************************************)
(* Turn orchestration and event correlation of the aileen3 agent:          *)
(*   - the event correlator of the chat UI (chat_ui/ui/event_mapping.py),  *)
(*   - the assistant loop and its exit check                               *)
(*     (agent_system/aileen3/assistant_loop_exit_agent.py, agent.py),      *)
(*   - the turn gate (agent_system/aileen3/conditional_prep_agent.py).     *)
(***************************************************************************)
EXTENDS Integers, Sequences, FiniteSets, TLC

\* Python's None and every other falsy scalar the code tests with `or` / `if x:`.
None == "None"

\* Python truthiness of a text or None: `if v:`.
Truthy(v) == v # None /\ v # ""

\* ------------------------------------------------------------------ bounds
\* Events processed by the correlator in one turn.
MaxEvents == 4
\* Events of the session log that turns and steps may add.
MaxLog == 4
\* Sessions the backend creates for the chat UI.
MaxSessions == 2
\* Events processed by a second chat_fn call running at the same time.
MaxOther == 2

\* ------------------------------------------------------- correlator: state
VARIABLES
    tools_by_key,          \* ToolDisplayState.tools_by_key: key -> ChatMessage
    tool_order,            \* ToolDisplayState.tool_order
    job_roots,             \* ToolDisplayState.job_roots: job_id -> key
    fake_progress_ticks,   \* ToolDisplayState.fake_progress_ticks
    suppress_text,         \* ToolDisplayState.suppress_text
    ret,                   \* what the last process_event call returned
    ev,                    \* the event of the last process_event call
    nEvents,               \* events processed in this turn
    seenKeys,              \* monitor: own keys (id, else name) of the calls and responses seen
    scenA,                 \* monitor: length of the Scenario A prefix seen, -1 once left
    polling,               \* monitor: start/poll shape of the turn so far
    tool_messages,         \* chat_fn: the tool messages of the last loop iteration
    visual                 \* monitor: [tool, payload] visual tool responses seen this turn

\* chat_fn and clear_session_fn around the correlator.
VARIABLES
    chat_pc,               \* chat_fn: "streaming", "ended" (returned) or "failed" (raised)
    chat_error,            \* chat_fn: what it raised: None, "gr.Error" or "exception"
    answer_text_chunks,    \* chat_fn: answer_text_chunks
    did_yield,             \* chat_fn: did_yield
    outputs,               \* chat_fn: what its last yield carried
    session_id,            \* chat_fn: the session id of the running call, 0 for None
    stored_session_id,     \* the gr.State that keeps the session id, 0 for None
    sessions_created,      \* sessions the backend has created so far
    delete_result,         \* how clear_session_fn went, if called since the last chat_fn call
    refinementRan,         \* monitor: the source emitted a refinement event in this turn
    sourced,               \* monitor: the last event of the source and whether chat_fn got it
    other_turn             \* a second chat_fn call running at the same time: [state, n]

corrVars == <<tools_by_key, tool_order, job_roots, fake_progress_ticks,
              suppress_text, ret, ev, nEvents, seenKeys, scenA, polling,
              tool_messages, visual, chat_pc, chat_error, answer_text_chunks,
              did_yield, outputs, session_id, stored_session_id,
              sessions_created, delete_result, refinementRan, sourced,
              other_turn>>

\* -------------------------------------------------------------- dict helpers
Put(f, k, v) == [x \in (DOMAIN f) \cup {k} |-> IF x = k THEN v ELSE f[x]]

Get(f, k, default) == IF k \in DOMAIN f THEN f[k] ELSE default

EmptyDict == [x \in {} |-> None]

\* -------------------------------------------------------------- wire events
\* A Part of an event's content: one record shape for every kind, the fields
\* a kind does not have are None.
\*   kind "call":  function_call  {id, name, args}
\*   kind "resp":  function_response {id, name, response{structuredContent{job_id,
\*                 status, slides / image data}}}
\*   kind "text":  {text}
\*   kind "empty": {} (a falsy part);  kind "other": a part of no known shape
MkPart(kind, id, name, args, job, status, payload, text) ==
    [kind |-> kind, id |-> id, name |-> name, args |-> args, job |-> job,
     status |-> status, payload |-> payload, text |-> text]

CallPart(id, name, args) == MkPart("call", id, name, args, None, None, None, None)

RespPart(id, name, job, status, payload) ==
    MkPart("resp", id, name, None, job, status, payload, None)

TextPart(text) == MkPart("text", None, None, None, None, None, None, text)

EmptyPart == MkPart("empty", None, None, None, None, None, None, None)

OtherPart == MkPart("other", None, None, None, None, None, None, None)

\* An event: author, the streaming markers, and its ordered parts.
MkEvent(author, partial, finishReason, parts) ==
    [author |-> author, partial |-> partial, finishReason |-> finishReason,
     parts |-> parts]

AssistantEvent(part) == MkEvent("assistant_agent", None, None, <<part>>)

\* ------------------------------------------------------- rendering helpers
MkBody(fmt, tool, status, n) == [fmt |-> fmt, tool |-> tool, status |-> status, n |-> n]

\* _tool_label: the four known tools, else the wrench and the title-cased name.
_tool_label(name) ==
    CASE name = "get_factual_memory"        -> <<"books", "Memory lookup">>
      [] name = "start_media_retrieval"     -> <<"tv", "Load media">>
      [] name = "start_media_analysis"      -> <<"lens", "Analyze media">>
      [] name = "get_media_analysis_result" -> <<"lens", "Analyze media">>
      [] OTHER                              -> <<"wrench", name>>

\* _format_args_markdown / _format_media_analysis_args
FormatCallBody(tool_name, args) ==
    IF tool_name = "start_media_analysis"
    THEN IF args = None THEN MkBody("_No input provided._", tool_name, None, 0)
                        ELSE MkBody("briefing", tool_name, args, 0)
    ELSE IF args = None THEN MkBody("_No arguments._", tool_name, None, 0)
                        ELSE MkBody("**Input**", tool_name, args, 0)

Min(a, b) == IF a < b THEN a ELSE b
Max(a, b) == IF a > b THEN a ELSE b

\* _fake_progress_bar: the number of blocks shown.
_fake_progress_bar(ticks) == Min(Max(ticks, 1), 8)

\* A ChatMessage of the tool display.
MkMsg(content, title, status, id) ==
    [content |-> content, title |-> title, status |-> status, id |-> id]

MkState(tbk, order, roots, ticks, suppress) ==
    [tools_by_key |-> tbk, tool_order |-> order, job_roots |-> roots,
     fake_progress_ticks |-> ticks, suppress_text |-> suppress]

\* Mutant of init_tool_display_state: the job roots of an earlier call are
\* still in the state a call starts from.
init_tool_display_state_StaleRoots ==
    MkState(EmptyDict, <<>>, Put(EmptyDict, "j1", "c1"), EmptyDict, FALSE)

\* init_tool_display_state
init_tool_display_state == MkState(EmptyDict, <<>>, EmptyDict, EmptyDict, FALSE)

\* What process_event hands back: the new turn state and the returned value.
MkRet(kind, text, n) == [kind |-> kind, text |-> text, n |-> n]
NoFragment == MkRet("none", None, 0)
Result(state, r) == [state |-> state, ret |-> r]

\* --------------------------------------------------------- process_event
\* _first_part: parts[0], or {} when the event has no parts.
_first_part(event) ==
    IF Len(event.parts) = 0 THEN EmptyPart ELSE event.parts[1]

\* fc.get("name", "tool") / fr.get("name", "tool")
ToolName(part) == IF part.name = None THEN "tool" ELSE part.name

\* fc.get("id") or tool_name / fr.get("id") or tool_name
OwnKey(part) == IF part.id = None THEN ToolName(part) ELSE part.id

Title(tool_name) == _tool_label(tool_name)

RefinementKey == "__briefing_refinement__"

RefinementTitle == <<"teacher", "Refining and expanding inquiry">>

\* Mutant of RefinementStatus: only finishReason STOP completes the refinement.
RefinementStatus_StopOnly(event) ==
    IF event.finishReason = "STOP" THEN "done" ELSE "pending"

\* Lines 422-430: the refinement is done on finishReason STOP or a non-partial event.
RefinementStatus(event) ==
    IF event.finishReason = "STOP" \/ event.partial = None \/ event.partial = "false"
    THEN "done" ELSE "pending"

\* Lines 398-433: events of the briefing refinement agent.
RefinementBranch(event, state) ==
    LET key == RefinementKey
        fresh == key \notin DOMAIN state.tools_by_key
        msg == IF fresh
               THEN MkMsg(MkBody("_Refining and expanding your inquiry..._", None, None, 0),
                          RefinementTitle, "pending", key)
               ELSE [state.tools_by_key[key] EXCEPT !.title = RefinementTitle]
        msg2 == [msg EXCEPT !.status = RefinementStatus(event)]
    IN Result([state EXCEPT
                 !.tools_by_key = Put(state.tools_by_key, key, msg2),
                 !.tool_order = IF fresh THEN Append(state.tool_order, key)
                                         ELSE state.tool_order],
              NoFragment)

\* Mutant of CallBranch: a call for a message that exists keeps its status.
CallBranch_KeepStatus(fc, state) ==
    LET tool_name == ToolName(fc)
        call_id == OwnKey(fc)
        body == FormatCallBody(tool_name, fc.args)
        fresh == call_id \notin DOMAIN state.tools_by_key
        msg == MkMsg(body, Title(tool_name),
                     IF fresh THEN "pending" ELSE state.tools_by_key[call_id].status,
                     call_id)
    IN Result([state EXCEPT
                 !.tools_by_key = Put(state.tools_by_key, call_id, msg),
                 !.tool_order = IF fresh THEN Append(state.tool_order, call_id)
                                         ELSE state.tool_order],
              NoFragment)

\* Mutant of CallBranch: the id is appended to the order at every call.
CallBranch_AlwaysAppend(fc, state) ==
    LET tool_name == ToolName(fc)
        call_id == OwnKey(fc)
        body == FormatCallBody(tool_name, fc.args)
        msg == MkMsg(body, Title(tool_name), "pending", call_id)
    IN Result([state EXCEPT
                 !.tools_by_key = Put(state.tools_by_key, call_id, msg),
                 !.tool_order = Append(state.tool_order, call_id)],
              NoFragment)

\* Lines 440-476: a function call creates or refreshes the message under its id.
CallBranch(fc, state) ==
    LET tool_name == ToolName(fc)
        call_id == OwnKey(fc)
        body == FormatCallBody(tool_name, fc.args)
        fresh == call_id \notin DOMAIN state.tools_by_key
        msg == MkMsg(body, Title(tool_name), "pending", call_id)
    IN Result([state EXCEPT
                 !.tools_by_key = Put(state.tools_by_key, call_id, msg),
                 !.tool_order = IF fresh THEN Append(state.tool_order, call_id)
                                         ELSE state.tool_order],
              NoFragment)

\* Mutants of CanonicalKey: the job root is ignored; the job id itself is the key.
CanonicalKey_NoRoots(roots, call_id, job_id) == call_id

CanonicalKey_JobAsKey(roots, call_id, job_id) ==
    IF job_id # None THEN job_id ELSE call_id

\* Lines 493-499: the key a function response resolves to.
CanonicalKey(roots, call_id, job_id) ==
    IF job_id # None /\ job_id \in DOMAIN roots THEN roots[job_id] ELSE call_id

\* Mutant of RootsAfter: every response carrying a job_id takes the root over.
RootsAfter_Overwrite(roots, call_id, job_id) ==
    IF job_id # None THEN Put(roots, job_id, call_id) ELSE roots

\* Lines 494-497: the first response carrying a job_id registers its root.
RootsAfter(roots, call_id, job_id) ==
    IF job_id # None /\ job_id \notin DOMAIN roots
    THEN Put(roots, job_id, call_id) ELSE roots

\* Mutant of ResponseStatus: any status present counts as still pending.
ResponseStatus_NeverDone(status_value) ==
    IF status_value # None THEN "pending" ELSE "done"

\* Mutant of ResponseStatus: only the status "pending" keeps the message pending.
ResponseStatus_PendingOnly(status_value) ==
    IF status_value = "pending" THEN "pending" ELSE "done"

\* Mutant of ResponseStatus: a response always completes the message.
ResponseStatus_AlwaysDone(status_value) == "done"

\* Lines 519-522: done on status "done" or a falsy status, pending otherwise.
ResponseStatus(status_value) ==
    IF Truthy(status_value)
    THEN (IF status_value = "done" THEN "done" ELSE "pending")
    ELSE "done"

MediaRetrievalTools == {"start_media_retrieval", "get_media_retrieval_status"}
MediaAnalysisTools == {"start_media_analysis", "get_media_analysis_result"}
SlideTools == {"start_slide_extraction", "get_extracted_slides"}

\* Mutant of TicksAfter: a poll of any tool counts a progress tick.
TicksAfter_AnyTool(ticks, tool_name, canonical_key, status_value) ==
    IF Truthy(status_value) /\ status_value # "done"
    THEN Put(ticks, canonical_key, Get(ticks, canonical_key, 0) + 1)
    ELSE ticks

\* Lines 532-533: only media analysis polls count progress ticks.
TicksAfter(ticks, tool_name, canonical_key, status_value) ==
    IF tool_name \in MediaAnalysisTools /\ Truthy(status_value) /\ status_value # "done"
    THEN Put(ticks, canonical_key, Get(ticks, canonical_key, 0) + 1)
    ELSE ticks

\* Mutant of HasVisual: a translated slide does not count.
HasVisual_SlidesOnly(tool_name, payload) ==
    tool_name \in SlideTools /\ payload = "slides"

\* Lines 540-541 and 583-594: does the response carry a visual payload.
HasVisual(tool_name, payload) ==
    \/ tool_name \in SlideTools /\ payload = "slides"
    \/ tool_name = "translate_slide" /\ payload = "image"

\* Mutant of SuppressAfter: a response without a visual payload clears the flag.
SuppressAfter_Reset(flag, tool_name, payload) == HasVisual(tool_name, payload)

\* Lines 575 and 597: the flag is set, nothing clears it.
SuppressAfter(flag, tool_name, payload) == flag \/ HasVisual(tool_name, payload)

\* Lines 525-614: the body of the message, by tool.
ResponseBody(tool_name, fr, ticks, canonical_key) ==
    CASE tool_name = "get_factual_memory" ->
            MkBody("**Memory lookup result**", tool_name, None, 0)
      [] tool_name \in MediaRetrievalTools ->
            MkBody("retrieval", tool_name, fr.status, 0)
      [] tool_name \in MediaAnalysisTools ->
            IF fr.payload = "analysis"
            THEN MkBody("analysis", tool_name, fr.status, 0)
            ELSE IF canonical_key \in DOMAIN ticks
                 THEN MkBody("**Progress:**", tool_name, fr.status,
                             _fake_progress_bar(ticks[canonical_key]))
                 ELSE MkBody("_Media analysis in progress..._", tool_name, fr.status, 0)
      [] tool_name \in SlideTools ->
            IF fr.payload = "slides"
            THEN MkBody("Extracted slides for this media.", tool_name, None, 1)
            ELSE MkBody("_No slides available for this media._", tool_name, None, 0)
      [] tool_name = "translate_slide" ->
            IF fr.payload = "image"
            THEN MkBody("Translated slide image ready.", tool_name, None, 0)
            ELSE MkBody("_Slide translation completed, but the image payload could not be decoded._",
                        tool_name, None, 0)
      [] OTHER -> MkBody("json", tool_name, fr.status, 0)

\* Lines 543-576 and 595-598: the fragment a visual tool returns.
ResponseFragment(tool_name, payload) ==
    IF tool_name \in SlideTools /\ payload = "slides" THEN MkRet("slides", None, 1)
    ELSE IF tool_name = "translate_slide" /\ payload = "image" THEN MkRet("image", None, 0)
    ELSE NoFragment

\* Lines 479-616: a function response.
ResponseBranch(fr, state) ==
    LET tool_name == ToolName(fr)
        call_id == OwnKey(fr)
        job_id == fr.job
        status_value == fr.status
        canonical_key == CanonicalKey(state.job_roots, call_id, job_id)
        roots == RootsAfter(state.job_roots, call_id, job_id)
        fresh == canonical_key \notin DOMAIN state.tools_by_key
        ticks == TicksAfter(state.fake_progress_ticks, tool_name, canonical_key, status_value)
        msg == MkMsg(ResponseBody(tool_name, fr, ticks, canonical_key),
                     Title(tool_name), ResponseStatus(status_value), canonical_key)
    IN Result([state EXCEPT
                 !.tools_by_key = Put(state.tools_by_key, canonical_key, msg),
                 !.tool_order = IF fresh THEN Append(state.tool_order, canonical_key)
                                         ELSE state.tool_order,
                 !.job_roots = roots,
                 !.fake_progress_ticks = ticks,
                 !.suppress_text = SuppressAfter(state.suppress_text, tool_name, fr.payload)],
              ResponseFragment(tool_name, fr.payload))

\* Mutant of TextBranch: the text is returned whatever the flag says.
TextBranch_Unsuppressed(part, state) == Result(state, MkRet("text", part.text, 0))

\* Lines 619-624: plain text, unless suppressed.
TextBranch(part, state) ==
    IF state.suppress_text THEN Result(state, NoFragment)
    ELSE Result(state, MkRet("text", part.text, 0))

\* Mutant of process_event: the author is not looked at.
process_event_NoRefinement(event, state) ==
    LET part == _first_part(event) IN
    CASE part.kind = "empty" -> Result(state, NoFragment)
      [] part.kind = "call"  -> CallBranch(part, state)
      [] part.kind = "resp"  -> ResponseBranch(part, state)
      [] part.kind = "text"  -> TextBranch(part, state)
      [] OTHER               -> Result(state, NoFragment)

\* Mutant of process_event: a part that is no text, call or response is
\* taken for a function call.
process_event_OtherAsCall(event, state) ==
    IF event.author = "briefing_refinement_agent" THEN RefinementBranch(event, state)
    ELSE LET part == _first_part(event) IN
         CASE part.kind = "empty" -> Result(state, NoFragment)
           [] part.kind = "resp"  -> ResponseBranch(part, state)
           [] part.kind = "text"  -> TextBranch(part, state)
           [] OTHER               -> CallBranch(part, state)

\* Lines 382-626.
process_event(event, state) ==
    IF event.author = "briefing_refinement_agent" THEN RefinementBranch(event, state)
    ELSE LET part == _first_part(event) IN
         CASE part.kind = "empty" -> Result(state, NoFragment)
           [] part.kind = "call"  -> CallBranch(part, state)
           [] part.kind = "resp"  -> ResponseBranch(part, state)
           [] part.kind = "text"  -> TextBranch(part, state)
           [] OTHER               -> Result(state, NoFragment)

\* Mutant of get_ordered_tool_messages: the finished messages come first.
get_ordered_tool_messages_done_first(state) ==
    LET all == [i \in 1..Len(state.tool_order) |-> state.tools_by_key[state.tool_order[i]]]
    IN SelectSeq(all, LAMBDA msg : msg.status = "done")
         \o SelectSeq(all, LAMBDA msg : msg.status # "done")

\* Lines 629-633.
get_ordered_tool_messages(state) ==
    [i \in 1..Len(state.tool_order) |-> state.tools_by_key[state.tool_order[i]]]

\* ------------------------------------------------- the events of a turn
Ids == {"c1", "c2"}
Statuses == {"pending", "done"}

CallEvents ==
    {AssistantEvent(CallPart(i, "fetch", None)) : i \in Ids \cup {None}}

\* Responses of one tool: every own id, with and without the job j1.
RespEvents ==
    {AssistantEvent(RespPart(i, "fetch", j, s, None)) :
        i \in Ids \cup {None}, j \in {"j1", None}, s \in Statuses}

\* A second job, a response without status, a poll of the media analysis.
OtherRespEvents ==
    { AssistantEvent(RespPart("c2", "fetch", "j2", "pending", None)),
      AssistantEvent(RespPart(None, "fetch", "j2", "done", None)),
      AssistantEvent(RespPart("c1", "fetch", None, None, None)),
      AssistantEvent(RespPart("c2", "get_media_analysis_result", "j1", "pending", None)) }

VisualEvents ==
    {AssistantEvent(RespPart("c2", "get_extracted_slides", None, "done", "slides"))}

TextEvents == {AssistantEvent(TextPart("hello"))}

RefinementEvents ==
    {MkEvent("briefing_refinement_agent", "true", None, <<TextPart("refined")>>)}

MalformedEvents == {AssistantEvent(OtherPart)}

TurnEvents ==
    CallEvents \cup RespEvents \cup OtherRespEvents \cup VisualEvents \cup TextEvents
        \cup RefinementEvents \cup MalformedEvents

NoEvent == MkEvent(None, None, None, <<>>)

\* The events of a turn that shows calls, statuses, visual results, text and
\* the briefing refinement.
RefinementEvent(partial, finishReason, part) ==
    MkEvent("briefing_refinement_agent", partial, finishReason, <<part>>)

DisplayCallEvents ==
    { AssistantEvent(CallPart("c1", "fetch", None)),
      AssistantEvent(CallPart(None, "fetch", None)),
      AssistantEvent(CallPart("c1", "start_media_analysis", "args")) }

\* Statuses: absent, empty, "done", and one that is none of these.
DisplayStatuses == {None, "", "running", "done"}

DisplayRespEvents ==
    {AssistantEvent(RespPart("c1", "fetch", None, s, None)) : s \in DisplayStatuses}
      \cup { AssistantEvent(RespPart("c1", "fetch", "j1", "running", None)),
             AssistantEvent(RespPart("c2", "fetch", "j1", "done", None)) }

DisplayVisualEvents ==
    { AssistantEvent(RespPart("c2", "get_extracted_slides", None, "done", "slides")),
      AssistantEvent(RespPart("c2", "start_slide_extraction", None, "running", None)),
      AssistantEvent(RespPart("c2", "translate_slide", None, None, "image")),
      AssistantEvent(RespPart("c2", "translate_slide", None, None, None)) }

DisplayRefinementEvents ==
    { RefinementEvent("true", None, TextPart("refined")),
      RefinementEvent("true", "STOP", TextPart("refined")),
      RefinementEvent("true", "MAX_TOKENS", TextPart("refined")),
      RefinementEvent("false", None, TextPart("refined")),
      RefinementEvent(None, None, TextPart("refined")),
      RefinementEvent("true", None, CallPart("c1", "fetch", None)),
      RefinementEvent(None, None,
                      RespPart("c2", "get_extracted_slides", "j1", "running", "slides")) }

DisplayEvents ==
    DisplayCallEvents \cup DisplayRespEvents \cup DisplayVisualEvents
        \cup TextEvents \cup DisplayRefinementEvents
        \cup {MkEvent("assistant_agent", None, None, <<>>)}

TurnState ==
    MkState(tools_by_key, tool_order, job_roots, fake_progress_ticks, suppress_text)

\* ------------------------------------------------------------- monitors
\* Scenario A of the specification, section 8.
ScenarioA ==
    << AssistantEvent(CallPart("c1", "fetch", None)),
       AssistantEvent(RespPart("c1", "fetch", None, "pending", None)),
       AssistantEvent(RespPart("c1", "fetch", "j1", "pending", None)),
       AssistantEvent(RespPart(None, "fetch", "j1", "done", None)) >>

ScenAStep(k, e) ==
    IF k >= 0 /\ k < Len(ScenarioA) /\ e = ScenarioA[k + 1] THEN k + 1 ELSE -1

\* The shape "one start call, its response introducing a job, then polling
\* call/response pairs with other ids carrying that job".
MkPolling(phase, root, job, poll) ==
    [phase |-> phase, root |-> root, job |-> job, poll |-> poll]

PollingInit == MkPolling("init", None, None, None)
PollingBad == MkPolling("bad", None, None, None)

IsCall(e) == e.author # "briefing_refinement_agent" /\ _first_part(e).kind = "call"
IsResp(e) == e.author # "briefing_refinement_agent" /\ _first_part(e).kind = "resp"

PollingStep(m, e) ==
    LET part == _first_part(e) IN
    CASE m.phase = "init" /\ IsCall(e) /\ part.id # None ->
            MkPolling("called", part.id, None, None)
      [] m.phase = "called" /\ IsResp(e) /\ part.id = m.root /\ part.job # None ->
            MkPolling("started", m.root, part.job, None)
      [] m.phase = "started" /\ IsCall(e) /\ part.id # None /\ part.id # m.root ->
            MkPolling("pollcall", m.root, m.job, part.id)
      [] m.phase = "pollcall" /\ IsResp(e) /\ part.id = m.poll /\ part.job = m.job ->
            MkPolling("started", m.root, m.job, None)
      [] OTHER -> PollingBad

\* The own key of a call or response: its id, else its name.
SeenStep(seen, e) ==
    LET part == _first_part(e) IN
    IF IsCall(e) \/ IsResp(e)
    THEN seen \cup {IF part.id # None THEN part.id
                    ELSE IF part.name # None THEN part.name ELSE "tool"}
    ELSE seen

\* Responses of the slide tools and of translate_slide seen in this turn, and
\* those among them that carried slides or an image.
MkVisual(tool, payload) == [tool |-> tool, payload |-> payload]

IsVisualResp(e) ==
    IsResp(e) /\ ToolName(_first_part(e)) \in SlideTools \cup {"translate_slide"}

CarriesVisual(e) ==
    \/ ToolName(_first_part(e)) \in SlideTools /\ _first_part(e).payload = "slides"
    \/ ToolName(_first_part(e)) = "translate_slide" /\ _first_part(e).payload = "image"

VisualStep(v, e) ==
    MkVisual(v.tool \/ IsVisualResp(e), v.payload \/ (IsVisualResp(e) /\ CarriesVisual(e)))

\* ------------------------------------------------------------ the backends
BackendKinds == {"api_server", "aileen3"}

\* make_backend: ApiServerBackend is a plain dataclass; AgentEngineBackend
\* builds a Vertex client and fetches the engine in __post_init__, which may raise.
make_backend(kind) == IF kind = "api_server" THEN {"built"} ELSE {"built", "raises"}

\* A part with a function_call key whose value is empty: a tool part for the
\* backends, no function call for process_event.
EmptyCallPart == MkPart("emptycall", None, None, None, None, None, None, None)

\* base.py lines 9-37.
_is_tool_event(event) ==
    /\ event.author = "assistant_agent"
    /\ Len(event.parts) > 0
    /\ event.parts[1].kind \in {"call", "resp", "emptycall"}

\* Mutant of _is_displayable_event: a partial event of any author passes.
_is_displayable_event_AnyAuthor(event) ==
    \/ event.partial = "true"
    \/ _is_tool_event(event)

\* base.py lines 40-59.
_is_displayable_event(event) ==
    \/ event.author = "assistant_agent" /\ event.partial = "true"
    \/ _is_tool_event(event)

\* gr.State(value=None): no session id is stored.
NoSession == 0

\* What the session endpoint answers: an id, a body without an id, an HTTP error.
EnsureReplies == {"id", "no_id", "error"}

MkEnsured(id, raised, created, state_applied) ==
    [id |-> id, raised |-> raised, created |-> created, state_applied |-> state_applied]

\* Mutant of ensure_session: the existing id is not looked at.
ensure_session_AlwaysCreate(existing, reply, created) ==
    IF reply = "id" THEN MkEnsured(created + 1, FALSE, created + 1, TRUE)
    ELSE MkEnsured(NoSession, TRUE, created, FALSE)

\* ensure_session: the existing id if there is one, with no request made;
\* else a new session with the supplied state. A reply without an id and an
\* HTTP error both raise.
ensure_session(existing, reply, created) ==
    IF existing # NoSession THEN MkEnsured(existing, FALSE, created, FALSE)
    ELSE IF reply = "id" THEN MkEnsured(created + 1, FALSE, created + 1, TRUE)
    ELSE MkEnsured(NoSession, TRUE, created, FALSE)

\* What the DELETE request comes to: a status code, or no response at all.
DeleteStatuses == {"200", "204", "404", "500", "transport"}

\* delete_session: a no-op in the base class; the API server backend raises on
\* a transport error and on a status other than 200, 204, 404.
delete_session(kind, sid, status) ==
    IF kind # "api_server" \/ sid = NoSession THEN "noop"
    ELSE IF status \in {"200", "204", "404"} THEN "returned"
    ELSE "raised"

\* clear_session_fn: config and backend are built outside the try; what
\* delete_session raises is swallowed; then None is returned.
clear_session_fn(sid, kind, built, status) ==
    IF sid = NoSession THEN [returned |-> TRUE, result |-> "skipped"]
    ELSE IF built = "raises" THEN [returned |-> FALSE, result |-> "uncaught"]
    ELSE [returned |-> TRUE, result |-> delete_session(kind, sid, status)]

\* ------------------------------------------------------- chat_fn: outputs
\* isinstance(text_delta, str) and text_delta
IsFragment(r) ==
    CASE r.kind = "none" -> FALSE
      [] r.kind = "text" -> Truthy(r.text)
      [] OTHER           -> TRUE

\* Mutant of ChunksAfter: the newest fragment is put first.
ChunksAfter_Prepend(chunks, r) == IF IsFragment(r) THEN <<r>> \o chunks ELSE chunks

\* Lines 204-207.
ChunksAfter(chunks, r) == IF IsFragment(r) THEN Append(chunks, r) ELSE chunks

\* Lines 212-218: the tool messages, then the answer text if there is any.
MkOutputs(msgs, text) == [msgs |-> msgs, text |-> text]
NoOutputs == MkOutputs(<<>>, <<>>)

\* Line 237: the empty assistant reply of a turn that showed nothing.
EmptyReply == MkOutputs(<<>>, <<MkRet("text", "", 0)>>)

\* The session id the next chat_fn call is handed: each yield carries the id
\* of its call, and a call that returns has yielded at least once.
HandedSession == IF chat_pc = "streaming" THEN session_id ELSE stored_session_id

\* The last event the source emitted, and whether it was handed to chat_fn.
MkSourced(event, forwarded) == [event |-> event, forwarded |-> forwarded]

\* ---------------------------------------------------- correlator: actions
CorrInit ==
    /\ tools_by_key = init_tool_display_state.tools_by_key
    /\ tool_order = init_tool_display_state.tool_order
    /\ job_roots = init_tool_display_state.job_roots
    /\ fake_progress_ticks = init_tool_display_state.fake_progress_ticks
    /\ suppress_text = init_tool_display_state.suppress_text
    /\ ret = NoFragment
    /\ ev = NoEvent
    /\ nEvents = 0
    /\ seenKeys = {}
    /\ scenA = 0
    /\ polling = PollingInit
    /\ tool_messages = <<>>
    /\ visual = MkVisual(FALSE, FALSE)
    /\ chat_pc = "streaming"
    /\ chat_error = None
    /\ answer_text_chunks = <<>>
    /\ did_yield = FALSE
    /\ outputs = NoOutputs
    /\ session_id = ensure_session(NoSession, "id", 0).id
    /\ stored_session_id = NoSession
    /\ sessions_created = ensure_session(NoSession, "id", 0).created
    /\ delete_result = None
    /\ refinementRan = FALSE
    /\ sourced = MkSourced(NoEvent, FALSE)
    /\ other_turn = [state |-> init_tool_display_state, n |-> 0]

\* chat_fn, one iteration of its event loop: process_event on the next event,
\* the fragment kept if it is a non-empty string, the tool messages collected,
\* and the outputs yielded with the session id unless there are none.
ProcessEvent(e) ==
    /\ nEvents < MaxEvents
    /\ chat_pc = "streaming"
    /\ \E r \in {process_event(e, TurnState)} :
       \E chunks \in {ChunksAfter(answer_text_chunks, r.ret)} :
       \E msgs \in {get_ordered_tool_messages(r.state)} :
        /\ tools_by_key' = r.state.tools_by_key
        /\ tool_order' = r.state.tool_order
        /\ job_roots' = r.state.job_roots
        /\ fake_progress_ticks' = r.state.fake_progress_ticks
        /\ suppress_text' = r.state.suppress_text
        /\ ret' = r.ret
        /\ tool_messages' = msgs
        /\ answer_text_chunks' = chunks
        /\ IF MkOutputs(msgs, chunks) = NoOutputs
           THEN UNCHANGED <<outputs, did_yield, stored_session_id>>
           ELSE /\ outputs' = MkOutputs(msgs, chunks)
                /\ did_yield' = TRUE
                /\ stored_session_id' = session_id
    /\ refinementRan' = (refinementRan \/ e.author = "briefing_refinement_agent")
    /\ sourced' = MkSourced(e, TRUE)
    /\ UNCHANGED <<chat_pc, chat_error, session_id, sessions_created,
                   delete_result, other_turn>>
    /\ ev' = e
    /\ nEvents' = nEvents + 1
    /\ seenKeys' = SeenStep(seenKeys, e)
    /\ scenA' = ScenAStep(scenA, e)
    /\ polling' = PollingStep(polling, e)
    /\ visual' = VisualStep(visual, e)

\* chat_fn up to its event loop when the backend is built and ensure_session
\* returns an id: every turn gets a fresh ToolDisplayState and no text.
StartTurn ==
    /\ nEvents > 0 \/ chat_pc # "streaming"
    /\ LET s == ensure_session(HandedSession, "id", sessions_created) IN
        /\ s.created <= MaxSessions
        /\ session_id' = s.id
        /\ sessions_created' = s.created
    /\ stored_session_id' = HandedSession
    /\ chat_pc' = "streaming"
    /\ chat_error' = None
    /\ answer_text_chunks' = <<>>
    /\ did_yield' = FALSE
    /\ outputs' = NoOutputs
    /\ refinementRan' = FALSE
    /\ sourced' = MkSourced(NoEvent, FALSE)
    /\ delete_result' = None
    /\ UNCHANGED other_turn
    /\ tools_by_key' = init_tool_display_state.tools_by_key
    /\ tool_order' = init_tool_display_state.tool_order
    /\ job_roots' = init_tool_display_state.job_roots
    /\ fake_progress_ticks' = init_tool_display_state.fake_progress_ticks
    /\ suppress_text' = init_tool_display_state.suppress_text
    /\ ret' = NoFragment
    /\ ev' = NoEvent
    /\ nEvents' = 0
    /\ seenKeys' = {}
    /\ scenA' = 0
    /\ polling' = PollingInit
    /\ tool_messages' = <<>>
    /\ visual' = MkVisual(FALSE, FALSE)

\* The turn state and its monitors are left as they are.
TurnUnchanged ==
    UNCHANGED <<tools_by_key, tool_order, job_roots, fake_progress_ticks,
                suppress_text, ret, ev, nEvents, seenKeys, scenA, polling,
                tool_messages, visual>>

\* stream_events: an event that is not displayable is not handed to chat_fn.
DropEvent(e) ==
    /\ nEvents < MaxEvents
    /\ chat_pc = "streaming"
    /\ refinementRan' = (refinementRan \/ e.author = "briefing_refinement_agent")
    /\ sourced' = MkSourced(e, FALSE)
    /\ TurnUnchanged
    /\ UNCHANGED <<chat_pc, chat_error, answer_text_chunks, did_yield, outputs,
                   session_id, stored_session_id, sessions_created,
                   delete_result, other_turn>>

\* stream_events and the loop of chat_fn: the next event of the source.
StreamEvent(e) ==
    \/ _is_displayable_event(e) /\ ProcessEvent(e)
    \/ ~_is_displayable_event(e) /\ DropEvent(e)

\* Mutant of SourceRaises: what the turn had shown is taken back.
SourceRaises_RollsBack ==
    /\ chat_pc = "streaming"
    /\ chat_pc' = "failed"
    /\ chat_error' = "gr.Error"
    /\ tools_by_key' = init_tool_display_state.tools_by_key
    /\ tool_order' = init_tool_display_state.tool_order
    /\ tool_messages' = <<>>
    /\ answer_text_chunks' = <<>>
    /\ outputs' = NoOutputs
    /\ UNCHANGED <<job_roots, fake_progress_ticks, suppress_text, ret, ev, nEvents,
                   seenKeys, scenA, polling, visual, did_yield, session_id,
                   stored_session_id, sessions_created, delete_result,
                   refinementRan, sourced, other_turn>>

\* stream_events raises inside the loop of chat_fn: gr.Error is raised, and
\* the final yield of the empty reply is not reached.
SourceRaises ==
    /\ chat_pc = "streaming"
    /\ chat_pc' = "failed"
    /\ chat_error' = "gr.Error"
    /\ TurnUnchanged
    /\ UNCHANGED <<answer_text_chunks, did_yield, outputs, session_id,
                   stored_session_id, sessions_created, delete_result,
                   refinementRan, sourced, other_turn>>

\* Mutant of EndTurn: chat_fn returns without the empty reply.
EndTurn_NoReply ==
    /\ chat_pc = "streaming"
    /\ chat_pc' = "ended"
    /\ TurnUnchanged
    /\ UNCHANGED <<outputs, did_yield, stored_session_id, chat_error,
                   answer_text_chunks, session_id, sessions_created,
                   delete_result, refinementRan, sourced, other_turn>>

\* stream_events is exhausted: chat_fn yields the empty reply if it has
\* yielded nothing, and returns.
EndTurn ==
    /\ chat_pc = "streaming"
    /\ chat_pc' = "ended"
    /\ IF did_yield THEN UNCHANGED outputs ELSE outputs' = EmptyReply
    /\ did_yield' = TRUE
    /\ stored_session_id' = session_id
    /\ TurnUnchanged
    /\ UNCHANGED <<chat_error, answer_text_chunks, session_id, sessions_created,
                   delete_result, refinementRan, sourced, other_turn>>

\* chat_fn raises before its event loop: make_backend raises (outside the
\* try), or ensure_session raises for want of an id or on an HTTP error.
StartTurnFails(kind, reply) ==
    /\ nEvents > 0 \/ chat_pc # "streaming"
    /\ \/ /\ "raises" \in make_backend(kind)
          /\ chat_error' = "exception"
       \/ /\ ensure_session(HandedSession, reply, sessions_created).raised
          /\ chat_error' = "gr.Error"
    /\ chat_pc' = "failed"
    /\ session_id' = NoSession
    /\ stored_session_id' = HandedSession
    /\ tools_by_key' = init_tool_display_state.tools_by_key
    /\ tool_order' = init_tool_display_state.tool_order
    /\ job_roots' = init_tool_display_state.job_roots
    /\ fake_progress_ticks' = init_tool_display_state.fake_progress_ticks
    /\ suppress_text' = init_tool_display_state.suppress_text
    /\ ret' = NoFragment
    /\ ev' = NoEvent
    /\ nEvents' = 0
    /\ seenKeys' = {}
    /\ scenA' = 0
    /\ polling' = PollingInit
    /\ tool_messages' = <<>>
    /\ visual' = MkVisual(FALSE, FALSE)
    /\ answer_text_chunks' = <<>>
    /\ did_yield' = FALSE
    /\ outputs' = NoOutputs
    /\ refinementRan' = FALSE
    /\ sourced' = MkSourced(NoEvent, FALSE)
    /\ delete_result' = None
    /\ UNCHANGED <<sessions_created, other_turn>>

\* clear_session_fn, run while no chat_fn call is streaming: the stored id
\* becomes what the function returns.
ClearSession(kind, built, status) ==
    /\ chat_pc # "streaming"
    /\ built \in make_backend(kind)
    /\ LET r == clear_session_fn(stored_session_id, kind, built, status) IN
        /\ stored_session_id' = IF r.returned THEN NoSession ELSE stored_session_id
        /\ delete_result' = r.result
    /\ TurnUnchanged
    /\ UNCHANGED <<chat_pc, chat_error, answer_text_chunks, did_yield, outputs,
                   session_id, sessions_created, refinementRan, sourced, other_turn>>

\* A second chat_fn call, running at the same time: its start.
OtherStart ==
    /\ other_turn.n > 0
    /\ other_turn' = [state |-> init_tool_display_state, n |-> 0]
    /\ TurnUnchanged
    /\ UNCHANGED <<chat_pc, chat_error, answer_text_chunks, did_yield, outputs,
                   session_id, stored_session_id, sessions_created,
                   delete_result, refinementRan, sourced>>

\* The second call: process_event on its next event, with its own state.
OtherProcess(e) ==
    /\ other_turn.n < MaxOther
    /\ other_turn' = [state |-> process_event(e, other_turn.state).state,
                      n |-> other_turn.n + 1]
    /\ TurnUnchanged
    /\ UNCHANGED <<chat_pc, chat_error, answer_text_chunks, did_yield, outputs,
                   session_id, stored_session_id, sessions_created,
                   delete_result, refinementRan, sourced>>

\* ======================================================================
\* The session: turn gate, assistant loop and exit check
\* ======================================================================
VARIABLES
    session_state,    \* ctx.session.state: [avail, kv]; avail FALSE is `state is None`
    session_events,   \* ctx.session.events, the append-only event log
    user_content,     \* ctx.user_content of the running invocation
    pc,               \* where the root agent's run stands
    times_looped,     \* rounds of the assistant loop completed in this turn
    outcome,          \* how the loop of this turn ended: None, "escalated", "capped"
    gate,             \* what the gate did in this invocation (see GateInit)
    exitOut,          \* the events the last exit check yielded
    rounds,           \* this turn: [watched, exits, escalates] invocations counted
    prepCount         \* this session: [runs, writes, dry] of the preparation step

sessVars == <<session_state, session_events, user_content, pc, times_looped,
              outcome, gate, exitOut, rounds, prepCount>>

\* agent.py line 38: the watched step.
watched_agent_name == "assistant_agent"

\* agent.py line 176.
response_state_key == "assistant_agent_response"

\* assistant_loop_exit_agent.py line 14. The Part gets DUMMY_SIGNATURE.encode("utf-8"),
\* the same marker as bytes.
DUMMY_SIGNATURE == "context_engineering_is_the_way_to_go"

\* agent.py line 185.
max_iterations == 8

\* A Part of a logged event: its text (None when it has none) and its function
\* call, if any, with the thought_signature of the call and of the Part.
MkLPart(text, hasCall, callSig, partSig) ==
    [text |-> text, hasCall |-> hasCall, callSig |-> callSig, partSig |-> partSig]

LText(text) == MkLPart(text, FALSE, None, None)
LCall(callSig, partSig) == MkLPart(None, TRUE, callSig, partSig)

\* A state_delta: the output_key write an event carries (key None: no write).
MkDelta(key, value) == [key |-> key, value |-> value]
NoDelta == MkDelta(None, None)

\* An event of the session log.
MkLEvent(author, final, parts, delta, escalate) ==
    [author |-> author, final |-> final, parts |-> parts, delta |-> delta,
     escalate |-> escalate]

\* Texts are "" (empty), " " (whitespace only) and words; str.strip().
Strip(text) == IF text = " " THEN "" ELSE text

\* "".join of two texts, up to what strip() and truthiness can tell apart.
Join(a, b) ==
    IF a = "" THEN b
    ELSE IF b = "" THEN a
    ELSE IF a = " " /\ b = " " THEN " "
    ELSE IF a = " " THEN b ELSE a

\* AssistantLoopExitAgent._extract_text
RECURSIVE JoinTexts(_)
JoinTexts(parts) ==
    IF Len(parts) = 0 THEN ""
    ELSE LET t == parts[1].text IN
         Join(IF Truthy(t) THEN t ELSE "", JoinTexts(Tail(parts)))

_extract_text(event) == JoinTexts(event.parts)

\* AssistantLoopExitAgent._latest_event_from_assistant: the index of the most
\* recent event of the watched step, 0 when there is none.
_latest_event_from_assistant(events) ==
    LET idx == {i \in 1..Len(events) : events[i].author = watched_agent_name}
    IN IF idx = {} THEN 0 ELSE CHOOSE i \in idx : \A j \in idx : j <= i

\* Mutant of _has_nonempty_response: the state store is never consulted.
_has_nonempty_response_never(st, state_key) == FALSE

\* AssistantLoopExitAgent._has_nonempty_response
_has_nonempty_response(st, state_key) ==
    IF ~st.avail THEN FALSE
    ELSE IF state_key \notin DOMAIN st.kv THEN FALSE
    ELSE Strip(st.kv[state_key]) # ""

\* Mutant of _has_text_response_since_last_user: the scan does not stop at the
\* most recent user event.
_has_text_response_anywhere(events) ==
    \E i \in 1..Len(events) :
        /\ events[i].author = "assistant_agent"
        /\ \E k \in 1..Len(events[i].parts) :
              events[i].parts[k].text \notin {None, "", " "}

\* AssistantLoopExitAgent._has_text_response_since_last_user
_has_text_response_since_last_user(events) ==
    LET users == {i \in 1..Len(events) : events[i].author = "user"}
        lastUser == IF users = {} THEN 0 ELSE CHOOSE i \in users : \A j \in users : j <= i
    IN \E i \in (lastUser + 1)..Len(events) :
          /\ events[i].author = watched_agent_name
          /\ Strip(_extract_text(events[i])) # ""

\* Lines 160-171: one part, patched when a signature is missing.
NeedsPatch(part) == part.hasCall /\ (~Truthy(part.callSig) \/ ~Truthy(part.partSig))

PatchPart(part) ==
    IF NeedsPatch(part)
    THEN [part EXCEPT !.callSig = DUMMY_SIGNATURE, !.partSig = DUMMY_SIGNATURE]
    ELSE part

\* Mutant of _patch_missing_signatures: only the most recent event of the
\* watched step is patched.
_patch_latest_only(events) ==
    [i \in 1..Len(events) |->
        IF i # _latest_event_from_assistant(events) THEN events[i]
        ELSE [events[i] EXCEPT
                !.parts = [k \in 1..Len(events[i].parts) |-> PatchPart(events[i].parts[k])]]]

\* Mutant of _patch_missing_signatures: nothing is patched.
_patch_nothing(events) == events

\* AssistantLoopExitAgent._patch_missing_signatures: the log after patching.
_patch_missing_signatures(events) ==
    [i \in 1..Len(events) |->
        IF events[i].author # watched_agent_name THEN events[i]
        ELSE [events[i] EXCEPT
                !.parts = [k \in 1..Len(events[i].parts) |-> PatchPart(events[i].parts[k])]]]

\* Mutant of HasOutput: only the state key counts, the text is not looked at.
HasOutput_StateOnly(events, st, latest) ==
    "assistant_agent_response" \in DOMAIN st.kv /\ st.kv["assistant_agent_response"] = "x"

\* Lines 58-65: has the watched step produced output.
HasOutput(events, st, latest) ==
    LET has_state_response ==
            response_state_key # None /\ _has_nonempty_response(st, response_state_key)
        has_text_response ==
            \/ Strip(_extract_text(events[latest])) # ""
            \/ _has_text_response_since_last_user(events)
    IN has_state_response \/ has_text_response

EscalateEvent == MkLEvent("assistant_loop_exit_agent", TRUE, <<>>, NoDelta, TRUE)

\* AssistantLoopExitAgent._run_async_impl: the log it leaves and the events it yields.
ExitRun(events, st) ==
    LET latest == _latest_event_from_assistant(events) IN
    IF latest = 0 THEN [events |-> events, out |-> <<>>]
    ELSE IF ~events[latest].final THEN [events |-> events, out |-> <<>>]
    ELSE IF ~HasOutput(events, st, latest)
         THEN [events |-> _patch_missing_signatures(events), out |-> <<>>]
    ELSE [events |-> events, out |-> <<EscalateEvent>>]

\* ------------------------------------------------- what the steps emit
\* agent.py lines 100-150: the briefing refinement step and its output_key.
PrepEvents ==
    { MkLEvent("briefing_refinement_agent", TRUE, <<LText("x")>>,
               MkDelta("briefing_refined", "x"), FALSE),
      MkLEvent("briefing_refinement_agent", FALSE, <<LText("x")>>, NoDelta, FALSE) }

\* agent.py lines 152-172: the message normalization step and its output_key.
NormEvents ==
    { MkLEvent("message_fix_agent", TRUE, <<LText("x")>>,
               MkDelta("normalized_user_message", "x"), FALSE) }

\* agent.py lines 36-98: the watched step and its output_key.
WatchedEvents ==
    { MkLEvent(watched_agent_name, FALSE, <<LCall(None, None)>>, NoDelta, FALSE),
      MkLEvent(watched_agent_name, FALSE, <<LText("x")>>, NoDelta, FALSE),
      MkLEvent(watched_agent_name, TRUE, <<LText("x")>>, NoDelta, FALSE),
      MkLEvent(watched_agent_name, TRUE, <<LText(" ")>>,
               MkDelta(response_state_key, " "), FALSE),
      MkLEvent(watched_agent_name, TRUE, <<>>, MkDelta(response_state_key, "x"), FALSE),
      MkLEvent(watched_agent_name, TRUE, <<LText(""), LCall("sig", None)>>, NoDelta, FALSE) }

\* The user's message as the runner logs it; only its author is ever read.
UserEvent == MkLEvent("user", TRUE, <<>>, NoDelta, FALSE)

\* ctx.user_content: absent, or the texts of its parts (None: a part without text).
MkContent(present, texts) == [present |-> present, texts |-> texts]

UserContents ==
    { MkContent(FALSE, <<>>), MkContent(TRUE, <<None, "">>),
      MkContent(TRUE, <<"", "hi", "yo">>) }

\* The runner applies an event's state_delta to the session state.
ApplyDelta(st, delta) ==
    IF st.avail /\ delta.key # None
    THEN [st EXCEPT !.kv = Put(st.kv, delta.key, delta.value)]
    ELSE st

\* ----------------------------------------------------------- turn gate
MkGate(hadKey, prepInvoked, normInvoked, emitted, forwarded) ==
    [hadKey |-> hadKey, prepInvoked |-> prepInvoked, normInvoked |-> normInvoked,
     emitted |-> emitted, forwarded |-> forwarded]

GateInit == MkGate(FALSE, FALSE, FALSE, <<>>, <<>>)

\* Mutant of has_refined_briefing: the wrong key is looked up.
has_latest_user_message(st) == st.avail /\ "latest_user_message" \in DOMAIN st.kv

\* Mutant of has_refined_briefing: the key is never found.
has_refined_briefing_never(st) == FALSE

\* conditional_prep_agent.py lines 43-47.
has_refined_briefing(st) == st.avail /\ "briefing_refined" \in DOMAIN st.kv

\* Mutant of Forward: the event is yielded without its parts.
Forward_Stripped(out, event) == Append(out, [event EXCEPT !.parts = <<>>])

\* conditional_prep_agent.py lines 53-54 and 72-73: `yield event`.
Forward(out, event) == Append(out, event)

\* conditional_prep_agent.py lines 57-64: the first truthy text of the user content.
RECURSIVE FirstText(_)
FirstText(texts) ==
    IF Len(texts) = 0 THEN None
    ELSE IF Truthy(texts[1]) THEN texts[1] ELSE FirstText(Tail(texts))

\* Mutant of user_text: only the first part is looked at.
user_text_head(content) ==
    IF content.present /\ Len(content.texts) > 0 THEN content.texts[1] ELSE None

\* Mutant of user_text: a placeholder stands in for a missing text.
user_text_placeholder(content) ==
    IF content.present /\ Truthy(FirstText(content.texts))
    THEN FirstText(content.texts) ELSE "(no text)"

\* conditional_prep_agent.py lines 57-64.
user_text(content) == IF content.present THEN FirstText(content.texts) ELSE None

MkRounds(watched, exits, escalates) ==
    [watched |-> watched, exits |-> exits, escalates |-> escalates]

\* Runs of the preparation step in this session, writes of its output key, and
\* runs that ended with the key still missing.
MkPrepCount(runs, writes, dry) == [runs |-> runs, writes |-> writes, dry |-> dry]

SessInit ==
    /\ session_state \in { [avail |-> a, kv |-> EmptyDict] : a \in BOOLEAN }
    /\ session_events = <<>>
    /\ user_content = MkContent(FALSE, <<>>)
    /\ pc = "idle"
    /\ times_looped = 0
    /\ outcome = None
    /\ gate = GateInit
    /\ exitOut = <<>>
    /\ rounds = MkRounds(0, 0, 0)
    /\ prepCount = MkPrepCount(0, 0, 0)

\* The runner starts a turn: the user message is logged and root_agent runs.
UserTurn(content) ==
    /\ pc \in {"idle", "done"}
    /\ Len(session_events) < MaxLog
    /\ session_events' = Append(session_events, UserEvent)
    /\ user_content' = content
    /\ pc' = "gate"
    /\ times_looped' = 0
    /\ outcome' = None
    /\ gate' = GateInit
    /\ exitOut' = <<>>
    /\ rounds' = MkRounds(0, 0, 0)
    /\ UNCHANGED <<session_state, prepCount>>

\* ConditionalPrepAgent._run_async_impl, lines 43-48: rule A is decided.
GateStart ==
    /\ pc = "gate"
    /\ LET has == has_refined_briefing(session_state) IN
        /\ gate' = [gate EXCEPT !.hadKey = "briefing_refined" \in DOMAIN session_state.kv,
                                !.prepInvoked = ~has]
        /\ pc' = IF has THEN "ruleB" ELSE "prep"
        /\ prepCount' = IF has THEN prepCount ELSE [prepCount EXCEPT !.runs = @ + 1]
    /\ UNCHANGED <<session_state, session_events, user_content, times_looped,
                   outcome, exitOut, rounds>>

\* Lines 53-54: the briefing agent emits an event, the gate yields it, the
\* runner logs it and applies its state_delta. The agent has no tools, so its
\* final response is the last event of its run.
PrepEmit(e) ==
    /\ pc = "prep"
    /\ Len(session_events) < MaxLog
    /\ \A i \in 1..Len(gate.emitted) : ~gate.emitted[i].final
    /\ prepCount' =
          IF session_state.avail /\ e.delta.key = "briefing_refined"
          THEN [prepCount EXCEPT !.writes = @ + 1] ELSE prepCount
    /\ gate' = [gate EXCEPT !.emitted = Append(@, e), !.forwarded = Forward(@, e)]
    /\ session_events' = Append(session_events, e)
    /\ session_state' = ApplyDelta(session_state, e.delta)
    /\ UNCHANGED <<user_content, pc, times_looped, outcome, exitOut, rounds>>

\* Line 53: the briefing agent's run ends.
PrepDone ==
    /\ pc = "prep"
    /\ pc' = "ruleB"
    /\ prepCount' =
          IF session_state.avail /\ "briefing_refined" \in DOMAIN session_state.kv
          THEN prepCount ELSE [prepCount EXCEPT !.dry = @ + 1]
    /\ UNCHANGED <<session_state, session_events, user_content, times_looped,
                   outcome, gate, exitOut, rounds>>

\* Lines 56-69: rule B; with user text the transient key is staged.
RuleB ==
    /\ pc = "ruleB"
    /\ LET text == user_text(user_content) IN
        IF Truthy(text) /\ session_state.avail
        THEN /\ session_state' =
                    [session_state EXCEPT !.kv = Put(@, "latest_user_message", text)]
             /\ gate' = [gate EXCEPT !.normInvoked = TRUE]
             /\ pc' = "norm"
             /\ UNCHANGED rounds
        ELSE /\ pc' = "watched"
             /\ rounds' = [rounds EXCEPT !.watched = @ + 1]
             /\ UNCHANGED <<session_state, gate>>
    /\ UNCHANGED <<session_events, user_content, times_looped, outcome, exitOut,
                   prepCount>>

\* Mutant of NormEmit: the message agent runs alongside the briefing agent.
NormEmit_Early(e) ==
    /\ pc \in {"prep", "norm"}
    /\ Len(session_events) < MaxLog
    /\ gate' = [gate EXCEPT !.emitted = Append(@, e), !.forwarded = Forward(@, e)]
    /\ session_events' = Append(session_events, e)
    /\ session_state' = ApplyDelta(session_state, e.delta)
    /\ UNCHANGED <<user_content, pc, times_looped, outcome, exitOut, rounds,
                   prepCount>>

\* Lines 72-73: the message agent emits an event and the gate yields it.
NormEmit(e) ==
    /\ pc = "norm"
    /\ Len(session_events) < MaxLog
    /\ gate' = [gate EXCEPT !.emitted = Append(@, e), !.forwarded = Forward(@, e)]
    /\ session_events' = Append(session_events, e)
    /\ session_state' = ApplyDelta(session_state, e.delta)
    /\ UNCHANGED <<user_content, pc, times_looped, outcome, exitOut, rounds,
                   prepCount>>

\* Line 72: the message agent's run ends; root_agent goes on to the loop.
NormDone ==
    /\ pc = "norm"
    /\ pc' = "watched"
    /\ rounds' = [rounds EXCEPT !.watched = @ + 1]
    /\ UNCHANGED <<session_state, session_events, user_content, times_looped,
                   outcome, gate, exitOut, prepCount>>

\* ------------------------------------------------------- assistant loop
\* agent.py lines 179-186, first sub-agent: the watched step emits an event.
WatchedEmit(e) ==
    /\ pc = "watched"
    /\ Len(session_events) < MaxLog
    /\ session_events' = Append(session_events, e)
    /\ session_state' = ApplyDelta(session_state, e.delta)
    /\ UNCHANGED <<user_content, pc, times_looped, outcome, gate, exitOut, rounds,
                   prepCount>>

\* The watched step's run ends; the exit check is next.
WatchedDone ==
    /\ pc = "watched"
    /\ pc' = "exit"
    /\ UNCHANGED <<session_state, session_events, user_content, times_looped,
                   outcome, gate, exitOut, rounds, prepCount>>

Escalated(out) == \E i \in 1..Len(out) : out[i].escalate

\* Mutant of LoopContinues: one round too many.
LoopContinues_OneMore(n) == n <= 8

\* agent.py lines 179-186: does the loop go round again.
LoopContinues(n) == n < max_iterations

\* agent.py lines 179-186, second sub-agent: the exit check runs, the runner
\* logs what it yields, and the loop stops on escalate or after max_iterations.
ExitCheck ==
    /\ pc = "exit"
    /\ LET r == ExitRun(session_events, session_state) IN
        /\ session_events' = r.events \o r.out
        /\ exitOut' = r.out
        /\ IF Escalated(r.out)
           THEN /\ pc' = "done"
                /\ outcome' = "escalated"
                /\ times_looped' = times_looped
                /\ rounds' = [rounds EXCEPT !.exits = @ + 1,
                                            !.escalates = @ + Len(r.out)]
           ELSE /\ times_looped' = times_looped + 1
                /\ IF LoopContinues(times_looped + 1)
                   THEN /\ pc' = "watched"
                        /\ outcome' = None
                        /\ rounds' = [rounds EXCEPT !.exits = @ + 1, !.watched = @ + 1]
                   ELSE /\ pc' = "done"
                        /\ outcome' = "capped"
                        /\ rounds' = [rounds EXCEPT !.exits = @ + 1]
    /\ UNCHANGED <<session_state, user_content, gate, prepCount>>

vars == <<corrVars, sessVars>>

Init == CorrInit /\ SessInit

\* The initial states with a state store.
StoreInit == Init /\ session_state.avail

\* The correlator over the events of a turn.
Next ==
    \/ \E e \in TurnEvents : ProcessEvent(e) /\ UNCHANGED sessVars
    \/ StartTurn /\ UNCHANGED sessVars

Spec == StoreInit /\ [][Next]_vars

\* The correlator over the events of a displayed turn.
DisplayNext ==
    \/ \E e \in DisplayEvents : ProcessEvent(e) /\ UNCHANGED sessVars
    \/ StartTurn /\ UNCHANGED sessVars

DisplaySpec == StoreInit /\ [][DisplayNext]_vars

\* What the event source of a backend may emit in a turn: streamed and final
\* assistant text, tool calls and responses, events of other authors, events
\* with several parts, and events whose first part is no text, call or response.
SourceEvents ==
    { MkEvent("assistant_agent", "true", None, <<TextPart("hello")>>),
      MkEvent("assistant_agent", "true", None, <<TextPart("world")>>),
      MkEvent("assistant_agent", "true", None, <<TextPart("")>>),
      MkEvent("assistant_agent", None, None, <<TextPart("hello")>>),
      MkEvent("assistant_agent", "false", None, <<TextPart("hello")>>),
      RefinementEvent("true", None, TextPart("refined")),
      MkEvent("message_fix_agent", None, None, <<TextPart("fixed")>>),
      AssistantEvent(CallPart("c1", "fetch", None)),
      AssistantEvent(RespPart("c2", "get_extracted_slides", None, "done", "slides")),
      MkEvent("assistant_agent", None, None,
              <<CallPart("c1", "fetch", None), CallPart("c2", "fetch", None)>>),
      MkEvent("assistant_agent", "true", None,
              <<TextPart("hello"), CallPart("c2", "fetch", None)>>),
      MkEvent("assistant_agent", None, None,
              <<TextPart("hello"), CallPart("c1", "fetch", None)>>),
      MkEvent("assistant_agent", "true", None, <<>>),
      MkEvent("assistant_agent", "true", None, <<OtherPart>>),
      AssistantEvent(EmptyCallPart) }

\* chat_fn over a backend's event source.
ChatNext ==
    \/ \E e \in SourceEvents : StreamEvent(e) /\ UNCHANGED sessVars
    \/ StartTurn /\ UNCHANGED sessVars
    \/ \E kind \in BackendKinds, reply \in EnsureReplies :
            StartTurnFails(kind, reply) /\ UNCHANGED sessVars
    \/ SourceRaises /\ UNCHANGED sessVars
    \/ EndTurn /\ UNCHANGED sessVars

ChatSpec == StoreInit /\ [][ChatNext]_vars

\* The turns of a chat and the clearing of its session: chat_fn over a short
\* event source, and clear_session_fn between the turns.
ClearEvents ==
    { MkEvent("assistant_agent", "true", None, <<TextPart("hello")>>),
      AssistantEvent(CallPart("c1", "fetch", None)),
      MkEvent("assistant_agent", "true", None, <<>>),
      RefinementEvent("true", None, TextPart("refined")) }

ClearNext ==
    \/ \E e \in ClearEvents : StreamEvent(e) /\ UNCHANGED sessVars
    \/ StartTurn /\ UNCHANGED sessVars
    \/ \E kind \in BackendKinds, reply \in EnsureReplies :
            StartTurnFails(kind, reply) /\ UNCHANGED sessVars
    \/ SourceRaises /\ UNCHANGED sessVars
    \/ EndTurn /\ UNCHANGED sessVars
    \/ \E kind \in BackendKinds, built \in {"built", "raises"}, status \in DeleteStatuses :
            ClearSession(kind, built, status) /\ UNCHANGED sessVars

ClearSpec == StoreInit /\ [][ClearNext]_vars

\* Two chat_fn calls running at the same time, each over its own events.
ConcurrentEvents ==
    { AssistantEvent(RespPart("c1", "fetch", "j1", "pending", None)),
      AssistantEvent(RespPart("c2", "get_media_analysis_result", "j1", "pending", None)),
      AssistantEvent(RespPart("c2", "get_extracted_slides", None, "done", "slides")),
      AssistantEvent(TextPart("hello")),
      MkEvent("assistant_agent", "true", None, <<>>) }

ConcurrentNext ==
    \/ \E e \in ConcurrentEvents : ProcessEvent(e) /\ UNCHANGED sessVars
    \/ StartTurn /\ UNCHANGED sessVars
    \/ \E e \in ConcurrentEvents : OtherProcess(e) /\ UNCHANGED sessVars
    \/ OtherStart /\ UNCHANGED sessVars

ConcurrentSpec == StoreInit /\ [][ConcurrentNext]_vars

\* The agent system over the turns of a session, for the user inputs `contents`.
SessionNextOver(contents) ==
    \/ \E c \in contents : UserTurn(c) /\ UNCHANGED corrVars
    \/ GateStart /\ UNCHANGED corrVars
    \/ \E e \in PrepEvents : PrepEmit(e) /\ UNCHANGED corrVars
    \/ PrepDone /\ UNCHANGED corrVars
    \/ RuleB /\ UNCHANGED corrVars
    \/ \E e \in NormEvents : NormEmit(e) /\ UNCHANGED corrVars
    \/ NormDone /\ UNCHANGED corrVars
    \/ \E e \in WatchedEvents : WatchedEmit(e) /\ UNCHANGED corrVars
    \/ WatchedDone /\ UNCHANGED corrVars
    \/ ExitCheck /\ UNCHANGED corrVars

SessionNext == SessionNextOver(UserContents)

SessionSpec == Init /\ [][SessionNext]_vars

\* The same session with a state store and one user input, under the fairness
\* the scheduling gives: every sub-agent run ends, and the loop then runs its
\* next sub-agent.
LoopContents == {MkContent(TRUE, <<"", "hi", "yo">>)}

LoopNext == SessionNextOver(LoopContents)

FairSessionSpec ==
    /\ StoreInit
    /\ [][LoopNext]_vars
    /\ WF_vars(WatchedDone /\ UNCHANGED corrVars)
    /\ WF_vars(ExitCheck /\ UNCHANGED corrVars)

\* The same session for user inputs whose first text is blank or comes late.
GateContents ==
    { MkContent(FALSE, <<>>), MkContent(TRUE, <<None, "">>),
      MkContent(TRUE, <<"", " ", "yo">>) }

GateNext == SessionNextOver(GateContents)

GateSpec == Init /\ [][GateNext]_vars

\* ======================================================================
\* Properties of the correlator (checked under Spec)
\* ======================================================================
\* A step that processed one more event of the running turn.
Processed == nEvents' = nEvents + 1

RespOwnKey(fr) ==
    IF fr.id # None THEN fr.id ELSE IF fr.name # None THEN fr.name ELSE "tool"

StatusOf(fr) == IF fr.status = None \/ fr.status = "done" THEN "done" ELSE "pending"

\* C1: in a turn made of one start call, its response introducing job j, and
\* polling call/response pairs with other ids whose responses carry j, the
\* correlator holds exactly one record at every point of the turn.
C1_OneRecordForPolledJob ==
    polling.phase \in {"called", "started", "pollcall"}
        => Cardinality(DOMAIN tools_by_key) = 1

\* C1, the part the code keeps: the responses of such a turn all land on the
\* record of the start call; the polling calls add records of their own.
C1_PollResponsesShareRoot ==
    polling.phase = "started"
        => /\ job_roots[polling.job] = polling.root
           /\ polling.root \in DOMAIN tools_by_key

\* C2: a function response resolves to JobRoot[j] when its job j is registered,
\* else to its own id (else name), registering that as the root of j when it
\* carries a job; without a job the mapping is unchanged; afterwards a record
\* exists under the resolved key, created by the response if none was there.
C2_ResponseResolution ==
    [][ (Processed /\ IsResp(ev')) =>
          LET fr == _first_part(ev')
              own == RespOwnKey(fr)
              j == fr.job
              key == IF j # None /\ j \in DOMAIN job_roots THEN job_roots[j] ELSE own
          IN /\ (j # None /\ j \notin DOMAIN job_roots
                    => job_roots' = [x \in DOMAIN job_roots \cup {j} |->
                                        IF x = j THEN own ELSE job_roots[x]])
             /\ (j = None \/ j \in DOMAIN job_roots => job_roots' = job_roots)
             /\ DOMAIN tools_by_key' = DOMAIN tools_by_key \cup {key}
             /\ tools_by_key'[key].id = key
             /\ tools_by_key'[key].status = StatusOf(fr)
             /\ (key \notin DOMAIN tools_by_key
                    => tool_order' = Append(tool_order, key)) ]_vars

C2_Witness ==
    /\ IsResp(ev)
    /\ _first_part(ev).job = "j1"
    /\ _first_part(ev).id = "c2"
    /\ "j1" \in DOMAIN job_roots
    /\ job_roots["j1"] = "c1"
    /\ "c2" \notin DOMAIN tools_by_key
    /\ "c1" \in DOMAIN tools_by_key

\* C3: within a turn an entry of the JobRoot mapping, once assigned, is never
\* changed or removed, and every later response carrying that job updates the
\* record under that key and no other record.
C3_JobRootStable ==
    [][ Processed =>
          /\ \A j \in DOMAIN job_roots :
                j \in DOMAIN job_roots' /\ job_roots'[j] = job_roots[j]
          /\ (IsResp(ev') /\ _first_part(ev').job \in DOMAIN job_roots =>
                LET root == job_roots[_first_part(ev').job] IN
                /\ root \in DOMAIN tools_by_key'
                /\ tools_by_key'[root].status = StatusOf(_first_part(ev'))
                /\ \A k \in DOMAIN tools_by_key \ {root} :
                      k \in DOMAIN tools_by_key' /\ tools_by_key'[k] = tools_by_key[k]) ]_vars

C3_Witness ==
    /\ IsResp(ev)
    /\ _first_part(ev).job = "j1"
    /\ _first_part(ev).id = None
    /\ nEvents >= 3
    /\ "j1" \in DOMAIN job_roots
    /\ job_roots["j1"] = "c2"
    /\ tools_by_key["c2"].status = "done"

\* C4 as stated: the records never outnumber the distinct canonical keys (own
\* id, else name) of the calls and responses seen so far.
C4_RecordsWithinSeenKeys ==
    Cardinality(DOMAIN tools_by_key) <= Cardinality(seenKeys)

\* C4, amended: the records other than the fixed-key refinement record never
\* outnumber (and are keyed by) the canonical keys of the calls and responses
\* seen so far, and a response whose job_id has been seen creates no record.
C4_RecordsWithinSeenKeysAndRefinement ==
    /\ [](/\ DOMAIN tools_by_key \ {RefinementKey} \subseteq seenKeys
          /\ Cardinality(DOMAIN tools_by_key \ {RefinementKey}) <= Cardinality(seenKeys)
          /\ Cardinality(DOMAIN tools_by_key) <= Cardinality(seenKeys) + 1)
    /\ [][ (Processed /\ IsResp(ev') /\ _first_part(ev').job \in DOMAIN job_roots)
              => DOMAIN tools_by_key' = DOMAIN tools_by_key ]_vars

C4_Witness ==
    /\ RefinementKey \in DOMAIN tools_by_key
    /\ Cardinality(DOMAIN tools_by_key) = Cardinality(seenKeys) + 1
    /\ Cardinality(seenKeys) >= 2
    /\ DOMAIN job_roots # {}

\* C5: Scenario A leaves one record, keyed c1 through JobRoot[j1] = c1, pending
\* after each of the first three events and done after the fourth.
C5_ScenarioA ==
    /\ scenA \in 1..4 =>
          /\ DOMAIN tools_by_key = {"c1"}
          /\ tool_order = <<"c1">>
          /\ tools_by_key["c1"].status = (IF scenA = 4 THEN "done" ELSE "pending")
    /\ scenA \in 1..2 => DOMAIN job_roots = {}
    /\ scenA \in 3..4 => DOMAIN job_roots = {"j1"} /\ job_roots["j1"] = "c1"

C5_Witness == scenA = 4 /\ nEvents = 4 /\ tools_by_key["c1"].status = "done"

\* ======================================================================
\* Properties of the assistant loop and the turn gate (under SessionSpec)
\* ======================================================================
\* Does the event carry text: any text that is not empty, or only text that is
\* more than whitespace.
SaysText(e, blankCounts) ==
    \E k \in 1..Len(e.parts) :
        /\ e.parts[k].text # None
        /\ e.parts[k].text # ""
        /\ (blankCounts \/ e.parts[k].text # " ")

WatchedIdx(log) == {i \in 1..Len(log) : log[i].author = "assistant_agent"}
UserIdx(log) == {i \in 1..Len(log) : log[i].author = "user"}
LastOf(idx) == IF idx = {} THEN 0 ELSE CHOOSE i \in idx : \A j \in idx : j <= i

KeyHolds(st, blankCounts) ==
    /\ "assistant_agent_response" \in DOMAIN st.kv
    /\ st.kv["assistant_agent_response"] # ""
    /\ (blankCounts \/ st.kv["assistant_agent_response"] # " ")

\* Conditions (i)-(iii) of the exit check on a log and a state store.
ShouldEscalate(log, st, blankCounts) ==
    LET latest == LastOf(WatchedIdx(log)) IN
    /\ latest # 0
    /\ log[latest].final
    /\ \/ KeyHolds(st, blankCounts)
       \/ SaysText(log[latest], blankCounts)
       \/ \E i \in WatchedIdx(log) :
             i > LastOf(UserIdx(log)) /\ SaysText(log[i], blankCounts)

\* C6 as stated: the exit check yields one Escalate exactly when the watched
\* step has an event, its latest is final, and the key holds a non-empty value
\* or the event or a watched event since the last user event has non-empty
\* text; otherwise it yields nothing.
C6_EscalateIffNonEmpty ==
    [][ pc = "exit" =>
          IF ShouldEscalate(session_events, session_state, TRUE)
          THEN exitOut' = <<EscalateEvent>> ELSE exitOut' = <<>> ]_vars

\* C6, amended: the same with "non-empty" read after stripping whitespace, for
\* the value of the key and for the texts.
C6_EscalateIffNonBlank ==
    [][ pc = "exit" =>
          IF ShouldEscalate(session_events, session_state, FALSE)
          THEN /\ exitOut' = <<EscalateEvent>>
               /\ session_events' = Append(session_events, EscalateEvent)
          ELSE exitOut' = <<>> ]_vars

\* Escalation owed to clause (c) alone: text earlier in the turn, none in the
\* final event, nothing under the key, and a user event of an earlier turn.
C6_Witness ==
    /\ pc = "done"
    /\ outcome = "escalated"
    /\ "assistant_agent_response" \notin DOMAIN session_state.kv
    /\ Len(session_events) >= 2
    /\ LET log == SubSeq(session_events, 1, Len(session_events) - 1)
           latest == LastOf(WatchedIdx(log))
       IN /\ latest # 0
          /\ ~SaysText(log[latest], TRUE)
          /\ \E i \in WatchedIdx(log) : i > LastOf(UserIdx(log)) /\ SaysText(log[i], FALSE)

\* C7: the loop runs at most max_iterations (8) rounds and always ends, by an
\* Escalate of the exit check or by exhausting the rounds.
C7_LoopBoundedAndEnds ==
    /\ [](/\ rounds.watched <= 8
          /\ rounds.exits <= 8
          /\ times_looped <= 8
          /\ (pc = "done" => outcome \in {"escalated", "capped"})
          /\ (outcome = "capped" => rounds.exits = 8 /\ rounds.escalates = 0)
          /\ (outcome = "escalated" => rounds.escalates = 1))
    /\ ((pc \in {"watched", "exit"}) ~> (pc = "done"))

C7_Witness ==
    /\ pc = "done"
    /\ outcome = "capped"
    /\ rounds.watched = 8
    /\ rounds.exits = 8

\* C8 as stated: when the watched step's most recent event is final and has
\* non-empty text, the exit check yields exactly one Escalate and the turn runs
\* no further round.
C8_FinalTextEscalates ==
    [][ (/\ pc = "exit"
         /\ LastOf(WatchedIdx(session_events)) # 0
         /\ session_events[LastOf(WatchedIdx(session_events))].final
         /\ SaysText(session_events[LastOf(WatchedIdx(session_events))], TRUE))
        => (exitOut' = <<EscalateEvent>> /\ pc' = "done") ]_vars

\* C8, amended: the same for text that is more than whitespace; once the loop
\* is done no watched step or exit check runs until the next turn.
C8_FinalWordsEscalate ==
    /\ [][ (/\ pc = "exit"
            /\ LastOf(WatchedIdx(session_events)) # 0
            /\ session_events[LastOf(WatchedIdx(session_events))].final
            /\ SaysText(session_events[LastOf(WatchedIdx(session_events))], FALSE))
           => /\ exitOut' = <<EscalateEvent>>
              /\ pc' = "done"
              /\ outcome' = "escalated"
              /\ rounds'.escalates = 1
              /\ rounds'.watched = rounds.watched ]_vars
    /\ [][ pc = "done" => (pc' = "done" \/ (pc' = "gate" /\ rounds'.watched = 0)) ]_vars

C8_Witness ==
    /\ pc = "done"
    /\ outcome = "escalated"
    /\ rounds.watched = 1
    /\ rounds.exits = 1
    /\ "assistant_agent_response" \notin DOMAIN session_state.kv
    /\ Len(session_events) >= 2
    /\ session_events[Len(session_events)] = EscalateEvent
    /\ session_events[Len(session_events) - 1].author = "assistant_agent"
    /\ SaysText(session_events[Len(session_events) - 1], FALSE)

\* The watched step's latest event is final, says nothing, nothing is under the
\* key or said since the last user event, and a call of it lacks a signature.
Stalled(log, st) ==
    LET latest == LastOf(WatchedIdx(log)) IN
    /\ latest # 0
    /\ log[latest].final
    /\ ~ShouldEscalate(log, st, FALSE)
    /\ \E k \in 1..Len(log[latest].parts) :
          /\ log[latest].parts[k].hasCall
          /\ (log[latest].parts[k].callSig = None \/ log[latest].parts[k].partSig = None)

\* C9: in Scenario B the exit check patches the call with the placeholder and
\* yields no Escalate, and the loop invokes the watched step again while
\* rounds remain.
C9_StallRecovery ==
    [][ (pc = "exit" /\ Stalled(session_events, session_state)) =>
          LET latest == LastOf(WatchedIdx(session_events)) IN
          /\ exitOut' = <<>>
          /\ Len(session_events') = Len(session_events)
          /\ \A k \in 1..Len(session_events[latest].parts) :
                session_events[latest].parts[k].hasCall =>
                   /\ session_events'[latest].parts[k].callSig = DUMMY_SIGNATURE
                   /\ session_events'[latest].parts[k].partSig = DUMMY_SIGNATURE
          /\ (times_looped + 1 < 8 =>
                pc' = "watched" /\ rounds'.watched = rounds.watched + 1)
          /\ (times_looped + 1 >= 8 => pc' = "done" /\ outcome' = "capped") ]_vars

C9_Witness ==
    /\ pc = "watched"
    /\ rounds.exits = 1
    /\ rounds.watched = 2
    /\ exitOut = <<>>
    /\ LastOf(WatchedIdx(session_events)) # 0
    /\ LET e == session_events[LastOf(WatchedIdx(session_events))] IN
          /\ e.final
          /\ \E k \in 1..Len(e.parts) :
                e.parts[k].hasCall /\ e.parts[k].callSig = DUMMY_SIGNATURE
                                   /\ e.parts[k].partSig = DUMMY_SIGNATURE

HasRefinedKey == "briefing_refined" \in DOMAIN session_state.kv

\* C10: a gate invocation runs the preparation step exactly when the state
\* store lacks briefing_refined at its start; the events of the step are
\* forwarded in the order emitted; the key, once there, stays, so no later
\* invocation runs the step.
C10_RuleA ==
    /\ [](/\ (pc \notin {"idle", "gate"} => (gate.prepInvoked <=> ~gate.hadKey))
          /\ (pc = "prep" => gate.prepInvoked)
          /\ gate.forwarded = gate.emitted)
    /\ [][ /\ (pc = "gate" => (pc' = "prep" <=> ~HasRefinedKey))
           /\ (pc # "gate" /\ pc # "prep" => pc' # "prep")
           /\ (HasRefinedKey => HasRefinedKey')
           /\ (pc = "prep" /\ session_events' # session_events =>
                 gate'.forwarded = Append(gate.forwarded,
                                          session_events'[Len(session_events')])) ]_vars

C10_Witness ==
    /\ pc = "ruleB"
    /\ gate.hadKey
    /\ ~gate.prepInvoked
    /\ Cardinality(UserIdx(session_events)) = 2
    /\ \E i \in 1..Len(session_events) :
          session_events[i].author = "briefing_refinement_agent"

\* ======================================================================
\* Properties of the turn gate (checked under GateSpec)
\* ======================================================================
\* Turns of the session so far: the user messages logged.
Turns == Cardinality({i \in 1..Len(session_events) : session_events[i].author = "user"})

TextParts(content) ==
    IF content.present
    THEN {i \in 1..Len(content.texts) : content.texts[i] \notin {None, ""}}
    ELSE {}

\* C12: the normalization step is invoked iff the user input has a part with
\* non-empty text and the state store is available; latest_user_message is
\* then set to the text of the first such part before the step runs and the
\* step's events are all forwarded; otherwise the key is not written and the
\* step not invoked; whether rule A fired makes no difference.
C12_RuleB ==
    /\ [](gate.forwarded = gate.emitted /\ (pc = "norm" => gate.normInvoked))
    /\ [][(pc = "ruleB" /\ pc' # "ruleB") =>
            LET idx == TextParts(user_content)
                has == idx # {} /\ session_state.avail
            IN /\ gate'.normInvoked = has
               /\ has =>
                    /\ pc' = "norm"
                    /\ LET first == CHOOSE i \in idx : \A j \in idx : i <= j
                       IN session_state'.kv =
                            Put(session_state.kv, "latest_user_message",
                                user_content.texts[first])
               /\ ~has =>
                    /\ pc' = "watched"
                    /\ session_state' = session_state]_vars
    /\ [][(\E i \in 1..Len(session_events') :
                i > Len(session_events) /\ session_events'[i].author = "message_fix_agent")
            => gate.normInvoked /\ pc = "norm"]_vars

C12_Witness ==
    /\ ~gate.prepInvoked
    /\ gate.normInvoked
    /\ Len(gate.forwarded) = 1
    /\ gate.forwarded[1].author = "message_fix_agent"
    /\ session_state.kv["latest_user_message"] = " "

\* ======================================================================
\* Properties of the displayed turn (checked under DisplaySpec)
\* ======================================================================
IsText(e) == e.author # "briefing_refinement_agent" /\ _first_part(e).kind = "text"

IsRefinement(e) == e.author = "briefing_refinement_agent"

\* Every record but the one under `key` is as it was, and none is gone.
OthersSame(key) ==
    /\ DOMAIN tools_by_key \subseteq DOMAIN tools_by_key'
    /\ DOMAIN tools_by_key' \subseteq DOMAIN tools_by_key \cup {key}
    /\ \A k \in DOMAIN tools_by_key \ {key} : tools_by_key'[k] = tools_by_key[k]

\* The first-seen order gains `key` at its end if the key is new, else stays.
OrderAfter(key) ==
    tool_order' = IF key \in DOMAIN tools_by_key THEN tool_order
                  ELSE Append(tool_order, key)

\* C13: a function call is keyed by its id (its name without id); a missing
\* record is created pending and appended to the order, an existing one has
\* body and title refreshed and is pending afterwards; nothing is returned
\* and job roots, ticks and the suppress flag stay as they are.
C13_CallProcessing ==
    [][(Processed /\ IsCall(ev')) =>
        LET fc == _first_part(ev')
            key == IF fc.id # None THEN fc.id ELSE fc.name
        IN /\ key \in DOMAIN tools_by_key'
           /\ tools_by_key'[key].status = "pending"
           /\ tools_by_key'[key].title = _tool_label(fc.name)
           /\ tools_by_key'[key].content = FormatCallBody(fc.name, fc.args)
           /\ OrderAfter(key)
           /\ OthersSame(key)
           /\ ret' = NoFragment
           /\ UNCHANGED <<job_roots, fake_progress_ticks, suppress_text>>]_vars

C13_Witness ==
    /\ ev = AssistantEvent(CallPart("c1", "start_media_analysis", "args"))
    /\ job_roots = Put(EmptyDict, "j1", "c1")
    /\ tool_order = <<"fetch", "c1">>
    /\ tools_by_key["c1"].status = "pending"
    /\ tools_by_key["c1"].title = <<"lens", "Analyze media">>
    /\ tools_by_key["fetch"].status = "pending"

\* The key a response resolves to, from the job roots before the step.
RespKey(fr) ==
    IF fr.job # None /\ fr.job \in DOMAIN job_roots THEN job_roots[fr.job]
    ELSE RespOwnKey(fr)

\* C14: after a function response the record under its canonical key is done
\* if the status is "done" or absent and pending for any other status value;
\* the status of every other record is unchanged.
C14_StatusDoneOrAbsent ==
    [][(Processed /\ IsResp(ev')) =>
        LET fr == _first_part(ev') IN
        /\ tools_by_key'[RespKey(fr)].status =
              (IF fr.status = "done" \/ fr.status = None THEN "done" ELSE "pending")
        /\ \A k \in DOMAIN tools_by_key \ {RespKey(fr)} :
              tools_by_key'[k].status = tools_by_key[k].status]_vars

\* C14, as the code has it: an empty status counts as no status.
C14_StatusDoneOrFalsy ==
    [][(Processed /\ IsResp(ev')) =>
        LET fr == _first_part(ev') IN
        /\ tools_by_key'[RespKey(fr)].status =
              (IF fr.status \in {"done", None, ""} THEN "done" ELSE "pending")
        /\ \A k \in DOMAIN tools_by_key \ {RespKey(fr)} :
              tools_by_key'[k].status = tools_by_key[k].status]_vars

C14_Witness ==
    /\ ev = AssistantEvent(RespPart("c1", "fetch", None, "", None))
    /\ tools_by_key["c1"].status = "done"
    /\ "fetch" \in DOMAIN tools_by_key
    /\ tools_by_key["fetch"].status = "pending"

\* C15: the response of a visual-artifact tool (slide extraction, slide
\* translation) returns a fragment with the visual payload and sets the
\* suppress flag, and a text part processed later in the turn returns nothing.
C15_VisualToolSuppresses ==
    /\ [][(Processed /\ IsVisualResp(ev')) =>
            ret'.kind \in {"slides", "image"} /\ suppress_text']_vars
    /\ [][(Processed /\ visual.tool /\ IsText(ev')) => ret' = NoFragment]_vars

\* C15, as the code has it: so it is when the response carries slides or an
\* image; a response of these tools without them returns nothing and leaves
\* the flag alone.
C15_VisualPayloadSuppresses ==
    /\ [][(Processed /\ IsVisualResp(ev') /\ CarriesVisual(ev')) =>
            ret'.kind \in {"slides", "image"} /\ suppress_text']_vars
    /\ [][(Processed /\ IsVisualResp(ev') /\ ~CarriesVisual(ev')) =>
            ret' = NoFragment /\ suppress_text' = suppress_text]_vars
    /\ [][(Processed /\ visual.payload /\ IsText(ev')) => ret' = NoFragment]_vars

C15_Witness ==
    /\ visual.payload
    /\ IsText(ev)
    /\ ret = NoFragment
    /\ \E k \in DOMAIN tools_by_key :
          tools_by_key[k].content.fmt = "Translated slide image ready."

\* C16: the suppress flag is false in a fresh turn state, only the response
\* of a visual-artifact tool sets it, no event clears it, and while it is set
\* every text event returns nothing.
C16_SuppressMonotone ==
    /\ [](nEvents = 0 => ~suppress_text)
    /\ [][(~suppress_text /\ suppress_text') => Processed /\ IsVisualResp(ev')]_vars
    /\ [][(suppress_text /\ Processed) => suppress_text']_vars
    /\ [][(suppress_text /\ Processed /\ IsText(ev')) => ret' = NoFragment]_vars

C16_Witness ==
    /\ suppress_text
    /\ IsResp(ev)
    /\ ~IsVisualResp(ev)
    /\ nEvents >= 2

\* C17: a text part returns exactly its text when the suppress flag is false
\* and nothing when it is true; no record, job root, tick or flag changes.
C17_TextFrame ==
    [][(Processed /\ IsText(ev')) =>
        /\ ret' = IF suppress_text THEN NoFragment
                  ELSE MkRet("text", _first_part(ev').text, 0)
        /\ UNCHANGED <<tools_by_key, tool_order, job_roots, fake_progress_ticks,
                       suppress_text>>]_vars

C17_Witness ==
    /\ IsText(ev)
    /\ ret = MkRet("text", "hello", 0)
    /\ Cardinality(DOMAIN tools_by_key) = 2
    /\ job_roots # EmptyDict

\* C18: the ordered tool messages are all records of the turn in first-seen
\* order: the list after an event extends the list before it by position, a
\* call on an unchanged state returns the same list, and no status change or
\* body refresh moves a record.
C18_OrderStable ==
    /\ [](/\ Len(tool_messages) = Len(tool_order)
          /\ \A i \in 1..Len(tool_order) :
                tool_messages[i] = tools_by_key[tool_order[i]]
          /\ {tool_order[i] : i \in 1..Len(tool_order)} = DOMAIN tools_by_key
          /\ Len(tool_order) = Cardinality(DOMAIN tools_by_key))
    /\ [][Processed =>
            /\ Len(tool_messages) <= Len(tool_messages')
            /\ \A i \in 1..Len(tool_messages) :
                  tool_messages'[i].id = tool_messages[i].id]_vars

C18_Witness ==
    /\ Len(tool_messages) = 3
    /\ tool_messages[1].status = "pending"
    /\ tool_messages[2].status = "done"
    /\ tool_messages[3].status = "done"
    /\ nEvents = MaxEvents

\* C19: an event of the refinement author never returns a fragment, whatever
\* its parts; there is at most one record under the fixed refinement key; and
\* such an event changes no other record, job root, tick or the suppress flag.
C19_RefinementSilent ==
    /\ [](Cardinality({i \in 1..Len(tool_order) : tool_order[i] = RefinementKey}) <= 1)
    /\ [][(Processed /\ IsRefinement(ev')) =>
            /\ ret' = NoFragment
            /\ RefinementKey \in DOMAIN tools_by_key'
            /\ OrderAfter(RefinementKey)
            /\ OthersSame(RefinementKey)
            /\ UNCHANGED <<job_roots, fake_progress_ticks, suppress_text>>]_vars

C19_Witness ==
    /\ IsRefinement(ev)
    /\ _first_part(ev).kind = "resp"
    /\ ~suppress_text
    /\ job_roots = EmptyDict
    /\ DOMAIN tools_by_key = {"c1", RefinementKey}
    /\ nEvents >= 3

\* C20: after an event of the refinement author the refinement record is done
\* if the event has finishReason STOP or its partial marker is absent or
\* false, and pending otherwise.
C20_RefinementStatus ==
    [][(Processed /\ IsRefinement(ev')) =>
        tools_by_key'[RefinementKey].status =
            (IF ev'.finishReason = "STOP" \/ ev'.partial \in {None, "false"}
             THEN "done" ELSE "pending")]_vars

C20_Witness ==
    /\ ev = RefinementEvent("true", "MAX_TOKENS", TextPart("refined"))
    /\ tools_by_key[RefinementKey].status = "pending"
    /\ nEvents >= 2

\* ======================================================================
\* Progress ticks (checked under Spec)
\* ======================================================================
\* The tick counter of `key`, 0 when it has none.
TickOf(ticks, key) == IF key \in DOMAIN ticks THEN ticks[key] ELSE 0

\* The only tick counter that moved is the one of `key`, by one.
OneTickAt(key) ==
    /\ TickOf(fake_progress_ticks', key) = TickOf(fake_progress_ticks, key) + 1
    /\ \A k \in (DOMAIN fake_progress_ticks \cup DOMAIN fake_progress_ticks') \ {key} :
          TickOf(fake_progress_ticks', k) = TickOf(fake_progress_ticks, k)

\* C21: every function response whose status is present and not "done" adds
\* one to the tick counter of its canonical key, whatever the tool; every
\* other event changes no tick counter.
C21_TickOnEveryPendingResponse ==
    [][Processed =>
        IF IsResp(ev') /\ _first_part(ev').status \notin {None, "done"}
        THEN OneTickAt(RespKey(_first_part(ev')))
        ELSE fake_progress_ticks' = fake_progress_ticks]_vars

\* C21, as the code has it: only the responses of the media analysis tools
\* (start_media_analysis, get_media_analysis_result) count ticks.
C21_TickOnPendingAnalysisResponse ==
    [][Processed =>
        IF /\ IsResp(ev')
           /\ _first_part(ev').name \in {"start_media_analysis", "get_media_analysis_result"}
           /\ _first_part(ev').status \notin {None, "", "done"}
        THEN OneTickAt(RespKey(_first_part(ev')))
        ELSE fake_progress_ticks' = fake_progress_ticks]_vars

C21_Witness ==
    /\ ev = AssistantEvent(RespPart("c2", "get_media_analysis_result", "j1", "pending", None))
    /\ job_roots = Put(EmptyDict, "j1", "c1")
    /\ DOMAIN fake_progress_ticks = {"c1"}
    /\ fake_progress_ticks["c1"] = 2

\* ======================================================================
\* chat_fn over a backend (checked under ChatSpec)
\* ======================================================================
\* An event with no parts, or whose first part is no text, call or response.
Malformed(e) == Len(e.parts) = 0 \/ e.parts[1].kind \notin {"text", "call", "resp"}

\* C22: processing an event, not of the refinement author, that has no parts
\* or whose part is none of text, function call and function response returns
\* no fragment, raises nothing and leaves records, order, job roots, tick
\* counters and suppress_text as they were.
C22_MalformedSkipped ==
    [][(Processed /\ ~IsRefinement(ev') /\ Malformed(ev')) =>
        /\ ret' = NoFragment
        /\ TurnState' = TurnState
        /\ tool_messages' = tool_messages
        /\ answer_text_chunks' = answer_text_chunks
        /\ chat_pc' = "streaming" /\ chat_error' = None]_vars

C22_Witness ==
    /\ ev = MkEvent("assistant_agent", "true", None, <<OtherPart>>)
    /\ ret = NoFragment
    /\ tool_order = <<"c1", "c2">>
    /\ suppress_text
    /\ Len(answer_text_chunks) = 2

\* ======================================================================
\* Two chat_fn calls at the same time (checked under ConcurrentSpec)
\* ======================================================================
\* A turn state with no record, no job root, no tick counter, text not suppressed.
IsEmptyState(st) ==
    /\ DOMAIN st.tools_by_key = {}
    /\ st.tool_order = <<>>
    /\ DOMAIN st.job_roots = {}
    /\ DOMAIN st.fake_progress_ticks = {}
    /\ ~st.suppress_text

\* Everything in the turn state comes from the events of this turn.
OwnEventsOnly ==
    /\ DOMAIN tools_by_key \subseteq seenKeys \cup {RefinementKey}
    /\ \A j \in DOMAIN job_roots : job_roots[j] \in seenKeys
    /\ DOMAIN fake_progress_ticks \subseteq seenKeys
    /\ suppress_text => visual.payload

\* C23: every chat_fn call starts from an empty turn state; nothing that an
\* earlier call or a call running at the same time wrote is in it, and the
\* steps of one call leave the state of the other as it was.
C23_TurnScoped ==
    /\ []((nEvents = 0 => IsEmptyState(TurnState)) /\ OwnEventsOnly)
    /\ [](other_turn.n = 0 => IsEmptyState(other_turn.state))
    /\ [][other_turn' # other_turn => TurnState' = TurnState]_vars
    /\ [][TurnState' # TurnState => other_turn' = other_turn]_vars

C23_Witness ==
    /\ nEvents = 0
    /\ stored_session_id = session_id
    /\ IsEmptyState(TurnState)
    /\ other_turn.n = 2
    /\ other_turn.state.suppress_text
    /\ "j1" \in DOMAIN other_turn.state.job_roots

\* The event source raised while the turn was being consumed.
SourceFailed == chat_pc = "streaming" /\ chat_pc' = "failed" /\ nEvents' = nEvents

Cleared ==
    /\ chat_pc # "streaming" /\ chat_pc' = chat_pc
    /\ delete_result' # None
    /\ <<stored_session_id', delete_result'>> # <<stored_session_id, delete_result>>

\* C25: delete_session on a missing session (404) ends without error;
\* clear_session_fn leaves no stored session id whether deletion succeeded,
\* failed or was skipped; and the turn after it starts a new session.
C25_ClearAlwaysForgets ==
    /\ [](\A sid \in 1..MaxSessions : delete_session("api_server", sid, "404") = "returned")
    /\ [][Cleared => stored_session_id' = NoSession]_vars
    /\ [][(delete_result # None /\ chat_pc # "streaming" /\ chat_pc' = "streaming") =>
            /\ session_id' = sessions_created + 1
            /\ sessions_created' = sessions_created + 1]_vars

\* ======================================================================
\* The answer text of a turn (checked under ChatSpec)
\* ======================================================================
\* C26: the events of a turn are processed one at a time in arrival order,
\* each applied to the state the event before it left; the answer text
\* yielded after an event is the non-empty fragments returned so far, in
\* arrival order.
C26_ArrivalOrder ==
    /\ [](nEvents = 0 => answer_text_chunks = <<>>)
    /\ [][Processed =>
            /\ TurnState' = process_event(ev', TurnState).state
            /\ ret' = process_event(ev', TurnState).ret
            /\ answer_text_chunks' =
                  IF ret'.kind = "none" \/ (ret'.kind = "text" /\ ret'.text \in {None, ""})
                  THEN answer_text_chunks
                  ELSE answer_text_chunks \o <<ret'>>
            /\ (tool_messages' # <<>> \/ answer_text_chunks' # <<>>) =>
                  /\ outputs' = MkOutputs(tool_messages', answer_text_chunks')
                  /\ did_yield']_vars
    /\ [][(~Processed /\ nEvents' = nEvents) =>
            /\ TurnState' = TurnState
            /\ answer_text_chunks' = answer_text_chunks]_vars

C26_Witness ==
    /\ nEvents = 4
    /\ ev = MkEvent("assistant_agent", "true", None, <<TextPart("")>>)
    /\ answer_text_chunks = <<MkRet("text", "world", 0), MkRet("text", "hello", 0)>>
    /\ Len(tool_messages) = 1
    /\ outputs = MkOutputs(tool_messages, answer_text_chunks)

\* ======================================================================
\* The turn gate's side effects (checked under GateSpec)
\* ======================================================================
\* The state store differs at most under `key`.
SameBut(key) ==
    /\ session_state'.avail = session_state.avail
    /\ DOMAIN session_state'.kv \ {key} = DOMAIN session_state.kv \ {key}
    /\ \A k \in DOMAIN session_state.kv \ {key} : session_state'.kv[k] = session_state.kv[k]

\* C27: the gate itself writes the key latest_user_message and nothing else;
\* briefing_refined and every other key change only through the state_delta
\* of an event of a sub-step, which the gate forwards as it got it.
C27_GateSideEffects ==
    /\ [](gate.forwarded = gate.emitted)
    /\ [][pc = "gate" =>
            UNCHANGED <<session_state, session_events>>]_vars
    /\ [][pc = "ruleB" =>
            /\ SameBut("latest_user_message")
            /\ UNCHANGED session_events]_vars
    /\ [][(pc \in {"prep", "norm"} /\ session_events' = session_events) =>
            UNCHANGED <<session_state, gate>>]_vars
    /\ [][(pc \in {"prep", "norm"} /\ session_events' # session_events) =>
            \E e \in PrepEvents \cup NormEvents :
                /\ session_events' = Append(session_events, e)
                /\ gate'.forwarded = Append(gate.forwarded, e)
                /\ session_state' = ApplyDelta(session_state, e.delta)
                /\ e.delta.key # "latest_user_message"]_vars

C27_Witness ==
    /\ pc = "norm"
    /\ gate.prepInvoked /\ gate.normInvoked
    /\ Len(gate.forwarded) = 2
    /\ gate.forwarded[1].author = "briefing_refinement_agent"
    /\ gate.forwarded[2].author = "message_fix_agent"
    /\ DOMAIN session_state.kv =
          {"briefing_refined", "latest_user_message", "normalized_user_message"}

\* C28: when the key briefing_refined is there and the user input has no
\* non-empty text (or there is no state store), the gate yields no event,
\* invokes neither sub-step and writes nothing to the state store.
C28_NeitherRuleFires ==
    /\ []((~gate.prepInvoked /\ ~gate.normInvoked) =>
            (gate.emitted = <<>> /\ gate.forwarded = <<>>))
    /\ [][(pc = "gate" /\ session_state.avail
                /\ "briefing_refined" \in DOMAIN session_state.kv) =>
            /\ pc' = "ruleB" /\ ~gate'.prepInvoked
            /\ UNCHANGED <<session_state, session_events>>]_vars
    /\ [][(pc = "ruleB" /\ ~gate.prepInvoked
                /\ (TextParts(user_content) = {} \/ ~session_state.avail)) =>
            /\ pc' = "watched"
            /\ gate' = MkGate(TRUE, FALSE, FALSE, <<>>, <<>>)
            /\ UNCHANGED <<session_state, session_events>>]_vars

C28_Witness ==
    /\ pc = "watched"
    /\ Turns = 2
    /\ times_looped = 0
    /\ gate = MkGate(TRUE, FALSE, FALSE, <<>>, <<>>)
    /\ session_events[Len(session_events)].author = "user"
    /\ "latest_user_message" \notin DOMAIN session_state.kv

\* ======================================================================
\* What reaches the correlator through a backend (checked under ChatSpec)
\* ======================================================================
\* C29: in a turn whose event source emitted an event of the briefing
\* refinement step, the turn state of chat_fn holds the refinement record.
C29_RefinementRecordShown ==
    refinementRan => RefinementKey \in DOMAIN tools_by_key

\* The key under which a call or response part is recorded.
PartKey(part) ==
    IF part.kind = "call" THEN OwnKey(part)
    ELSE CanonicalKey(job_roots, OwnKey(part), part.job)

\* C30: after an event is processed, every function call and function
\* response part of it, at whatever position, has a record under its key.
C30_EveryPartApplied ==
    (ev # NoEvent /\ ~IsRefinement(ev)) =>
        \A i \in 1..Len(ev.parts) :
            ev.parts[i].kind \in {"call", "resp"} =>
                PartKey(ev.parts[i]) \in DOMAIN tools_by_key

\* ======================================================================
\* The exit check over the whole log (checked under SessionSpec)
\* ======================================================================
\* The exit check is about to run a StallRecovery round: the watched step's
\* latest event is final and there is neither a stored response nor text.
StallRound(log, st) ==
    LET latest == LastOf(WatchedIdx(log)) IN
    /\ latest # 0
    /\ log[latest].final
    /\ ~ShouldEscalate(log, st, FALSE)

\* C31: a StallRecovery round leaves every function call part of every event
\* of the watched step in the log, of whatever turn, with a marker on the call
\* and on the part; other events and other parts are as they were, the log
\* keeps its length and order, and the state store is unchanged.
C31_PatchWholeLog ==
    [][(pc = "exit" /\ StallRound(session_events, session_state)) =>
        /\ session_state' = session_state
        /\ Len(session_events') = Len(session_events)
        /\ \A i \in 1..Len(session_events) :
            LET old == session_events[i]
                new == session_events'[i]
            IN /\ new.author = old.author /\ new.final = old.final
               /\ new.delta = old.delta /\ new.escalate = old.escalate
               /\ Len(new.parts) = Len(old.parts)
               /\ \A k \in 1..Len(old.parts) :
                    IF old.author = "assistant_agent" /\ old.parts[k].hasCall
                    THEN /\ new.parts[k].callSig \notin {None, ""}
                         /\ new.parts[k].partSig \notin {None, ""}
                         /\ new.parts[k].hasCall
                         /\ new.parts[k].text = old.parts[k].text
                    ELSE new.parts[k] = old.parts[k]]_vars

C31_Witness ==
    /\ Turns = 2
    /\ pc = "watched"
    /\ rounds.exits = 1
    /\ exitOut = <<>>
    /\ Len(session_events) = 4
    /\ session_events[2] =
          MkLEvent("assistant_agent", FALSE,
                   <<LCall(DUMMY_SIGNATURE, DUMMY_SIGNATURE)>>, NoDelta, FALSE)
    /\ session_events[4] =
          MkLEvent("assistant_agent", TRUE,
                   <<LText(""), LCall(DUMMY_SIGNATURE, DUMMY_SIGNATURE)>>, NoDelta, FALSE)
    /\ DOMAIN session_state.kv = {}

\* ======================================================================
\* Sessions across the turns of a chat (checked under ClearSpec)
\* ======================================================================
\* ensure_session with an existing id returns it, creates nothing and applies
\* no state; without one and with an id in the reply it creates one session.
EnsureReuses ==
    \A c \in 0..MaxSessions, reply \in EnsureReplies :
        /\ \A sid \in 1..MaxSessions :
              ensure_session(sid, reply, c) = MkEnsured(sid, FALSE, c, FALSE)
        /\ ensure_session(NoSession, "id", c) = MkEnsured(c + 1, FALSE, c + 1, TRUE)

\* A chat_fn call starts.
TurnStarts == nEvents' = 0 /\ (nEvents > 0 \/ chat_pc # "streaming")
                /\ chat_pc' \in {"streaming", "failed"} /\ delete_result' = None

FirstPartIsCallOrResponse(e) ==
    /\ Len(e.parts) > 0
    /\ e.parts[1].kind \in {"call", "resp", "emptycall"}

\* What the event source is said to let through.
SaidForwarded(e) ==
    /\ e.author = "assistant_agent"
    /\ e.partial = "true" \/ FirstPartIsCallOrResponse(e)

Visible == MkOutputs(get_ordered_tool_messages(TurnState), answer_text_chunks)

StreamEnds == chat_pc = "streaming" /\ chat_pc' = "ended"

\* A step in which chat_fn yields: an event whose outputs are not empty, or
\* the empty reply at the end of a stream that showed nothing.
Yields ==
    \/ Processed /\ Visible' # NoOutputs
    \/ StreamEnds /\ ~did_yield

\* C34: a turn whose event stream ends without error has yielded at least
\* once. While it streams it has yielded exactly when an event produced an
\* OperationRecord or a non-empty TextFragment; if none did, the end of the
\* stream yields exactly one empty reply, and otherwise it yields nothing
\* more. Every yield carries the session id of the turn.
C34_EveryTurnYields ==
    /\ [](chat_pc = "ended" => did_yield)
    /\ [](chat_pc = "streaming" => (did_yield <=> Visible # NoOutputs))
    /\ [][StreamEnds => IF did_yield THEN outputs' = outputs
                                     ELSE outputs' = EmptyReply]_vars
    /\ [][Yields => /\ did_yield'
                    /\ session_id' = session_id
                    /\ session_id # NoSession
                    /\ stored_session_id' = session_id]_vars

\* An empty partial text was processed and showed nothing; the stream ended
\* and the empty reply was yielded with the session id.
C34_Witness ==
    /\ chat_pc = "ended"
    /\ nEvents = 1
    /\ ev = MkEvent("assistant_agent", "true", None, <<TextPart("")>>)
    /\ outputs = EmptyReply
    /\ did_yield
    /\ stored_session_id = session_id
    /\ session_id # NoSession

\* ------------------------------------------------------------------ C35
\* The value under `key` in the state store, None when the key is absent.
Stored(st, key) == IF key \in DOMAIN st.kv THEN st.kv[key] ELSE None

\* The events the gate has yielded more in this step.
NewlyForwarded == {i \in 1..Len(gate'.forwarded) : i > Len(gate.forwarded)}

\* C35: in a gate invocation where both rules fire, every event of the
\* preparation step is forwarded before latest_user_message is written and
\* before the normalization step is invoked: while the preparation step runs
\* the gate writes no key and yields no normalization event, the key is
\* written only when the preparation step has ended and all its events were
\* yielded, and from then on no preparation event is yielded. No normalization
\* event precedes a preparation event among the events of an invocation.
C35_PrepBeforeNorm ==
    /\ [](pc = "prep" => ~gate.normInvoked)
    /\ [](\A i, j \in 1..Len(gate.forwarded) :
            (gate.forwarded[i].author = "message_fix_agent"
                /\ gate.forwarded[j].author = "briefing_refinement_agent") => j < i)
    /\ [][pc = "prep" =>
            /\ Stored(session_state', "latest_user_message")
                    = Stored(session_state, "latest_user_message")
            /\ ~gate'.normInvoked
            /\ (\A i \in NewlyForwarded :
                    gate'.forwarded[i].author = "briefing_refinement_agent")]_vars
    /\ [][(pc = "ruleB" /\ gate'.normInvoked) =>
            /\ gate.forwarded = gate.emitted
            /\ gate'.forwarded = gate.forwarded
            /\ Stored(session_state', "latest_user_message") = user_text(user_content)]_vars
    /\ [][(pc \in {"ruleB", "norm"}) =>
            (\A i \in NewlyForwarded :
                gate'.forwarded[i].author = "message_fix_agent")]_vars

\* Both rules fired in one invocation: the preparation event was yielded
\* first, then the key was written and the normalization event yielded.
C35_Witness ==
    /\ pc = "watched"
    /\ gate.prepInvoked /\ gate.normInvoked
    /\ Len(gate.forwarded) = 2
    /\ gate.forwarded[1].author = "briefing_refinement_agent"
    /\ gate.forwarded[2].author = "message_fix_agent"
    /\ gate.forwarded = gate.emitted
    /\ "latest_user_message" \in DOMAIN session_state.kv

\* ------------------------------------------------------------------ C36
\* The exit check runs with a final latest watched event and the key
\* assistant_agent_response set: by any non-empty value, or by one that is
\* more than whitespace.
KeyedExit(blankCounts) ==
    LET latest == LastOf(WatchedIdx(session_events)) IN
    /\ pc = "exit"
    /\ latest # 0
    /\ session_events[latest].final
    /\ KeyHolds(session_state, blankCounts)

\* The exit check ends a round with a final latest watched event and no
\* Escalate: the stall recovery.
RecoveryRound ==
    LET latest == LastOf(WatchedIdx(session_events)) IN
    /\ pc = "exit"
    /\ latest # 0
    /\ session_events[latest].final
    /\ exitOut' = <<>>

\* The key is never taken out of the state store.
KeyStays ==
    [][("assistant_agent_response" \in DOMAIN session_state.kv)
            => "assistant_agent_response" \in DOMAIN session_state'.kv]_vars

\* C36 as stated: the key is never cleared; whenever it holds a non-empty
\* value, every exit check whose latest watched event is final escalates,
\* whatever the watched step said since the last user event; the stall
\* recovery happens only while the key is absent or empty.
C36_NonEmptyKeyEscalates ==
    /\ KeyStays
    /\ [][KeyedExit(TRUE) => exitOut' = <<EscalateEvent>> /\ pc' = "done"]_vars
    /\ [][RecoveryRound => ~KeyHolds(session_state, TRUE)]_vars

\* C36, as the code has it: the same with a value that is more than
\* whitespace; the stall recovery happens only while the key is absent, empty
\* or whitespace.
C36_NonBlankKeyEscalates ==
    /\ KeyStays
    /\ [][KeyedExit(FALSE) => exitOut' = <<EscalateEvent>> /\ pc' = "done"]_vars
    /\ [][RecoveryRound => ~KeyHolds(session_state, FALSE)]_vars

\* The watched step ended a round with a final event without any text that
\* wrote the key; the exit check escalated on the key alone.
C36_Witness ==
    /\ pc = "done"
    /\ outcome = "escalated"
    /\ exitOut = <<EscalateEvent>>
    /\ KeyHolds(session_state, FALSE)
    /\ \A i \in WatchedIdx(session_events) :
            i > LastOf(UserIdx(session_events)) => ~SaysText(session_events[i], TRUE)
    /\ WatchedIdx(session_events) # {}

\* ======================================================================
\* The shape of the turn state (checked under Spec)
\* ======================================================================
\* The keys and the values of a dictionary.
KeysOf(d) == DOMAIN d
ValuesOf(d) == {d[k] : k \in DOMAIN d}

\* C37: after any sequence of processed events the first-seen order holds no
\* key twice, the keys in the order are exactly the keys of the records, every
\* job root and every key with a tick counter is the key of a record, and no
\* step of the turn removes a record.
C37_TurnStateShape ==
    /\ [](\A i, j \in 1..Len(tool_order) : tool_order[i] = tool_order[j] => i = j)
    /\ []({tool_order[i] : i \in 1..Len(tool_order)} = KeysOf(tools_by_key))
    /\ [](ValuesOf(job_roots) \subseteq KeysOf(tools_by_key))
    /\ [](KeysOf(fake_progress_ticks) \subseteq KeysOf(tools_by_key))
    /\ [][Processed => KeysOf(tools_by_key) \subseteq KeysOf(tools_by_key')]_vars

\* A turn with two records, a job root and a tick counter; the last event was
\* a call.
C37_Witness ==
    /\ nEvents = 4
    /\ Len(tool_order) = 2
    /\ KeysOf(job_roots) # {}
    /\ KeysOf(fake_progress_ticks) # {}
    /\ ev \in CallEvents

\* ------------------------------------------------------------------ C38
\* The record under `k` was done before the step and is pending after it.
Reopened(k) ==
    /\ k \in DOMAIN tools_by_key
    /\ tools_by_key[k].status = "done"
    /\ tools_by_key'[k].status = "pending"

PolledJobDone ==
    /\ polling.phase = "started"
    /\ IsResp(ev)
    /\ StatusOf(_first_part(ev)) = "done"

\* C39: at the end of a turn in which every function call was followed by a
\* function response with the same id and the last response of the job is done
\* (or has no status), no record is pending, also when the polling calls use
\* ids other than the id of the call that started the job.
C39_NoDanglingRecord ==
    PolledJobDone => \A k \in DOMAIN tools_by_key : tools_by_key[k].status # "pending"
====
